---- MODULE Spec2Model ----
(***************************************************************************)
(* A model of django-quik's proxy engine: the Stream wrapper and the HTTP  *)
(* header codec (server/http.py), the per-connection relay, the            *)
(* notification endpoint, the callback registry and the debounced file     *)
(* watcher (server/__init__.py).                                           *)
(*                                                                         *)
(* Byte strings and text are sequences of one-character strings.  The      *)
(* module holds several specifications over one set of variables; each     *)
(* specification drives one part of the program and leaves the variables   *)
(* of the other parts at their idle values.                                *)
(*   SpecHeaders  modify_headers / header_value on a header set            *)
(*   SpecStream   read_headers and read_chunk over one chunked socket      *)
(*   SpecRelay    one client connection: handle_client, serve_page, pumps  *)
(*   SpecNotify   notification endpoint, registry, debounce timer          *)
(***************************************************************************)
EXTENDS Integers, Sequences, FiniteSets, TLC

VARIABLES
    \* ---- SpecHeaders: one modify_headers call followed by header_value
    hpc,        \* "idle" | "start" | "modified" | "raised" | "looked"
    horig,      \* the header set before the call
    hset,       \* the header set (OrderedDict as a sequence of entries)
    hname,      \* name passed to modify_headers
    hvalue,     \* value passed to modify_headers
    hlookup,    \* name passed to header_value
    hresult     \* what header_value returned

hvars == <<hpc, horig, hset, hname, hvalue, hlookup, hresult>>

VARIABLES
    \* ---- SpecStream: read_headers, then read_chunk until the peer's EOF
    spc,        \* "idle" | "headers" | "hdr_eof" | "replay" | "eof"
    sorig,      \* every byte the peer sends, in order
    swire,      \* the bytes the socket has not handed out yet
    srestored,  \* Stream.restored_bytes
    sbuffer,    \* read_headers' buffer
    sheader,    \* what read_headers returned
    sreplay,    \* concatenation of the read_chunk results after read_headers
    ssplit      \* history: a recv ended inside the first terminator

svars == <<spc, sorig, swire, srestored, sbuffer, sheader, sreplay, ssplit>>

VARIABLES
    \* ---- SpecRelay: one client connection relayed to the backend
    rreq,       \* every byte the client sends
    rresp,      \* every byte the backend answers
    rcwire,     \* client -> proxy bytes the client socket has not handed out
    rcpeer,     \* "open" | "closed": the client's end of its connection
    rcout,      \* the bytes written to the client socket
    rcclosed,   \* stream_client.close() was called
    rcrest,     \* stream_client.restored_bytes
    rbconn,     \* "none" | "open": the backend connection (sock_proxy)
    rbwire,     \* backend -> proxy bytes the backend socket has not handed out
    rbpeer,     \* "open" | "closed": the backend's end
    rbout,      \* the bytes written to the backend socket
    rbclosed,   \* stream_proxy.close() was called
    rbrest,     \* stream_proxy.restored_bytes
    rhpc,       \* handle_client / serve_page: where the handler thread is
    rhbuf,      \* its read_headers buffer
    rhraw,      \* header_bytes it read
    c2dpc,      \* send_data_client_to_django_server: where the pump is
    c2dchunk,   \* the chunk it read and has not written yet
    d2cpc,      \* send_data_django_server_to_client: where the pump is
    d2cbuf,     \* its read_headers buffer
    d2craw,     \* raw_headers
    d2chdr,     \* header_bytes
    d2cchunk,   \* the chunk it read and has not written yet
    rmisread    \* history: read_headers restored body bytes to stream_proxy

rinput == <<rreq, rresp>>
rclient == <<rcwire, rcpeer, rcout, rcclosed, rcrest>>
rbackend == <<rbconn, rbwire, rbpeer, rbout, rbclosed, rbrest>>
rhandler == <<rhpc, rhbuf, rhraw>>
rc2d == <<c2dpc, c2dchunk>>
rd2c == <<d2cpc, d2cbuf, d2craw, d2chdr, d2cchunk, rmisread>>
rvars == <<rinput, rclient, rbackend, rhandler, rc2d, rd2c>>

VARIABLES
    \* ---- SpecNotify: notification endpoint, registry, debounce timer
    nreg,       \* dir_change_callbacks: the stream ids, in insertion order
                \* (the callback under a stream id writes to that stream)
    nlock,      \* ThreadSafeChangeCallbacks.lock is held
    nref,       \* history: the registry the completed operations give
                \* when applied one after another, in order of completion
    npeer,      \* per connection: "open" | "closed", the client's end
    nhpc,       \* per connection: where serve_refresh_event_page is
    nout,       \* per connection: the messages written to the client
    ntimer,     \* FilesWatchEventHandler.timer: 0 for None, else the number
                \* of the Timer (the n-th event starts Timer n)
    ntstate,    \* per Timer: "none" | "armed" | "cancelled" | "fired"
    nbpc,       \* per Timer: where its trigger_notify run is
    nsnap,      \* per Timer: the copy get_all returned
    nidx,       \* per Timer: position of the loop in that copy
    ninvoked,   \* history, per Timer and stream id: calls of its callback
    nbursts,    \* history: events that arrived with no unfired Timer pending
    nsubscribed \* history: the connections served before the first event,
                \* kept for as long as it is the only event

nregistry == <<nreg, nlock, nref>>
nconns == <<npeer, nhpc, nout>>
nwatch == <<ntimer, ntstate, nbursts, nsubscribed>>
nnotify == <<nbpc, nsnap, nidx, ninvoked>>
nvars == <<nregistry, nconns, nwatch, nnotify>>

VARIABLES
    \* ---- SpecCodec: build_header_bytes, then parse_headers on its output
    kpc,        \* "idle" | "start" | "built" | "parsed"
    kinfo,      \* the start-line triple passed to build_header_bytes
    kheaders,   \* the header set passed to build_header_bytes
    kdata,      \* the bytes build_header_bytes returned
    kresult     \* what parse_headers returned: [request_info, headers]

kvars == <<kpc, kinfo, kheaders, kdata, kresult>>

VARIABLES
    \* ---- SpecInject: inject_event_code on one page
    ipc,        \* "idle" | "start" | "done"
    ihtml,      \* the text passed to inject_event_code
    iresult     \* what it returned

ivars == <<ipc, ihtml, iresult>>

VARIABLES
    \* ---- SpecRegistry: set_callback and remove_callback calls in a row
    greg,       \* dir_change_callbacks: <<[key, cb], ...>>, insertion order
    gprev,      \* dir_change_callbacks before the last call
    gop         \* the last call: [op, key, cb]

gvars == <<greg, gprev, gop>>

VARIABLES
    \* ---- SpecPushBack: restore_bytes and read_chunk calls on one Stream
    pwire,      \* the bytes the socket has not handed out; EOF after them
    prestored,  \* Stream.restored_bytes
    ppushes,    \* the arguments of the restore_bytes calls since the last
                \* read_chunk that returned restored bytes, oldest first
    pret,       \* the last call: [op, data, raised, pushes]
    pcalls      \* the number of calls made

pvars == <<pwire, prestored, ppushes, pret, pcalls>>

VARIABLES
    \* ---- SpecStartLine: extract_http_starting_header_info on one line
    lpc,        \* "idle" | "start" | "done"
    lline,      \* the line passed in
    lresult     \* what it returned

lvars == <<lpc, lline, lresult>>

VARIABLES
    \* ---- SpecTolerant: parse_headers on a block without and with one
    \* more line that holds no ':'
    tpc,        \* "idle" | "start" | "without" | "done"
    tlines,     \* the lines of the block
    tat,        \* how many lines of the block come before the extra line
    textra,     \* the extra line
    twithout,   \* the header set parsed from the block
    twith       \* the header set parsed from the block with the extra line

tvars == <<tpc, tlines, tat, textra, twithout, twith>>

VARIABLES
    \* ---- SpecCli: handle_cli for `runserver`
    apc,        \* "idle" | "start" | "overridden" | "proxy" | "main"
    auser,      \* sys.argv as the user typed it
    aargv,      \* sys.argv
    arunning,   \* is_cli_running(): CLI_RUNNING is set (a reloaded process)
    ahost,      \* host returned by override_run_server_args
    aquik,      \* quik_serve_port returned by it, as a number
    adjango,    \* django_serve_port returned by it
    aconfig     \* the Configuration the proxy is started with, if started

avars == <<apc, auser, aargv, arunning, ahost, aquik, adjango, aconfig>>

vars == <<hvars, svars, rvars, nvars, kvars, ivars, gvars, pvars, lvars, tvars, avars>>

\* what the actions of one part leave alone
otherThanH == <<svars, rvars, nvars, kvars, ivars, gvars, pvars, lvars, tvars, avars>>
otherThanS == <<hvars, rvars, nvars, kvars, ivars, gvars, pvars, lvars, tvars, avars>>
otherThanR == <<hvars, svars, nvars, kvars, ivars, gvars, pvars, lvars, tvars, avars>>
otherThanN == <<hvars, svars, rvars, kvars, ivars, gvars, pvars, lvars, tvars, avars>>
otherThanK == <<hvars, svars, rvars, nvars, ivars, gvars, pvars, lvars, tvars, avars>>
otherThanI == <<hvars, svars, rvars, nvars, kvars, gvars, pvars, lvars, tvars, avars>>
otherThanG == <<hvars, svars, rvars, nvars, kvars, ivars, pvars, lvars, tvars, avars>>
otherThanP == <<hvars, svars, rvars, nvars, kvars, ivars, gvars, lvars, tvars, avars>>
otherThanL == <<hvars, svars, rvars, nvars, kvars, ivars, gvars, pvars, tvars, avars>>
otherThanT == <<hvars, svars, rvars, nvars, kvars, ivars, gvars, pvars, lvars, avars>>
otherThanA == <<hvars, svars, rvars, nvars, kvars, ivars, gvars, pvars, lvars, tvars>>

----------------------------------------------------------------------------
(* Text helpers: Python str / bytes operations used by the code.           *)

UPPER == <<"A","B","C","D","E","F","G","H","I","J","K","L","M",
           "N","O","P","Q","R","S","T","U","V","W","X","Y","Z">>
LOWER == <<"a","b","c","d","e","f","g","h","i","j","k","l","m",
           "n","o","p","q","r","s","t","u","v","w","x","y","z">>

\* str.lower() on one character
LowerChar(c) ==
    IF \E i \in 1..Len(UPPER) : UPPER[i] = c
    THEN LOWER[CHOOSE i \in 1..Len(UPPER) : UPPER[i] = c]
    ELSE c

\* str.lower()
Lower(s) == [i \in 1..Len(s) |-> LowerChar(s[i])]

\* Python slice s[a:b] (0-based, half open)
Slice(s, a, b) == SubSeq(s, a + 1, b)

\* s[a : a + len(p)] == p
MatchAt(s, p, a) ==
    /\ a + Len(p) <= Len(s)
    /\ \A k \in 1..Len(p) : s[a + k] = p[k]

\* bytes.find / str.find: the lowest 0-based index of p in s, or -1
Find(s, p) ==
    LET hits == {a \in 0..(Len(s) - Len(p)) : MatchAt(s, p, a)}
    IN  IF hits = {} THEN -1
        ELSE CHOOSE a \in hits : \A b \in hits : a <= b

Min(a, b) == IF a <= b THEN a ELSE b

\* a natural number in decimal, as f'{n}' writes it
RECURSIVE Str(_)
Str(n) ==
    LET digit == <<"0","1","2","3","4","5","6","7","8","9">>[(n % 10) + 1]
    IN  IF n < 10 THEN <<digit>> ELSE Str(n \div 10) \o <<digit>>

\* Optional[...] results: None, or a value
None == [ok |-> FALSE, val |-> <<>>]
Some(v) == [ok |-> TRUE, val |-> v]

----------------------------------------------------------------------------
(* Header sets: OrderedDict[str, List[str]] as a sequence of entries       *)
(* [key, vals] with pairwise different keys, in insertion order.           *)

HasKey(h, name) == \E i \in 1..Len(h) : h[i].key = name

\* headers[name] = [value]: in place for an existing key, appended otherwise
SetItem(h, name, value) ==
    IF HasKey(h, name)
    THEN [i \in 1..Len(h) |->
            IF h[i].key = name THEN [key |-> name, vals |-> <<value>>] ELSE h[i]]
    ELSE Append(h, [key |-> name, vals |-> <<value>>])

\* header_value: the first value of the first entry, in order, whose key
\* equals name ignoring case and whose value list is not empty
HeaderValue(h, name) ==
    LET hits == {i \in 1..Len(h) :
                    Lower(h[i].key) = Lower(name) /\ Len(h[i].vals) > 0}
    IN  IF hits = {} THEN None
        ELSE LET first == CHOOSE i \in hits : \A j \in hits : i <= j
             IN  Some(h[first].vals[1])

\* The loop of modify_headers over headers.keys().  The OrderedDict key
\* iterator advances to the next node when it hands out a key (cur = 0 once
\* the last key is handed out) and raises RuntimeError on the next step if a
\* key was added meanwhile; an added key after the last one goes unnoticed.
RECURSIVE ModifyLoop(_, _, _, _, _, _)
ModifyLoop(h, name, value, cur, mutated, found) ==
    IF cur = 0
    THEN [headers |-> IF found THEN h ELSE SetItem(h, name, value),
          raised |-> FALSE]
    ELSE IF mutated
    THEN [headers |-> h, raised |-> TRUE]
    ELSE LET nxt == IF cur = Len(h) THEN 0 ELSE cur + 1
         IN  IF Lower(h[cur].key) = Lower(name)
             THEN LET h2 == SetItem(h, name, value)
                  IN  ModifyLoop(h2, name, value, nxt, Len(h2) # Len(h), TRUE)
             ELSE ModifyLoop(h, name, value, nxt, mutated, found)

\* modify_headers(headers, name, value): the header set it leaves and
\* whether it raised
ModifyHeaders(h, name, value) ==
    ModifyLoop(h, name, value, IF Len(h) = 0 THEN 0 ELSE 1, FALSE, FALSE)

----------------------------------------------------------------------------
(* Header codec (http.py): parse_headers, extract_http_starting_header_info,*)
(* build_header_bytes, and the text operations they use.                   *)

CRLF == <<"\r", "\n">>
SPACE == <<" ">>
COLON == <<":">>

\* characters str.strip() removes
Whitespace == {" ", "\t", "\r", "\n"}

\* the concatenation of a sequence of sequences
RECURSIVE Flatten(_)
Flatten(parts) ==
    IF Len(parts) = 0 THEN <<>>
    ELSE IF Len(parts) = 1 THEN parts[1]
    ELSE LET half == Len(parts) \div 2
         IN  Flatten(SubSeq(parts, 1, half))
             \o Flatten(SubSeq(parts, half + 1, Len(parts)))

\* bytes.decode(errors='ignore'), what the byte at i gives: the two-byte
\* UTF-8 sequence C3 A9 is one character, ASCII bytes are themselves, and a
\* byte that is no part of a valid sequence (FF, a lone C3, a lone A9) is
\* dropped.
DecodeAt(b, i) ==
    IF b[i] = "0xC3" /\ i < Len(b) /\ b[i + 1] = "0xA9" THEN <<"U+00E9">>
    ELSE IF b[i] \in {"0xC3", "0xA9", "0xFF"} THEN <<>>
    ELSE <<b[i]>>

\* bytes.decode(errors='ignore')
Decode(b) == Flatten([i \in 1..Len(b) |-> DecodeAt(b, i)])

\* str.encode(errors='ignore'): UTF-8
Encode(t) ==
    Flatten([i \in 1..Len(t) |->
                IF t[i] = "U+00E9" THEN <<"0xC3", "0xA9">> ELSE <<t[i]>>])

\* str.split(sep)
RECURSIVE Split(_, _)
Split(t, sep) ==
    LET i == Find(t, sep)
    IN  IF i = -1 THEN <<t>>
        ELSE <<Slice(t, 0, i)>> \o Split(Slice(t, i + Len(sep), Len(t)), sep)

\* sep.join(parts)
RECURSIVE Join(_, _)
Join(parts, sep) ==
    IF Len(parts) = 0 THEN <<>>
    ELSE IF Len(parts) = 1 THEN parts[1]
    ELSE parts[1] \o sep \o Join(Tail(parts), sep)

\* str.strip()
RECURSIVE Strip(_)
Strip(t) ==
    IF Len(t) = 0 THEN t
    ELSE IF t[1] \in Whitespace THEN Strip(Tail(t))
    ELSE IF t[Len(t)] \in Whitespace THEN Strip(SubSeq(t, 1, Len(t) - 1))
    ELSE t

\* p in t
Contains(t, p) == Find(t, p) # -1

\* t.startswith(p)
StartsWith(t, p) == MatchAt(t, p, 0)

\* A wrong extract_http_starting_header_info: the second token alone is
\* taken for the path.
ExtractSecondTokenAsPath(line) ==
    LET values == Split(line, SPACE)
    IN  IF Len(values) >= 3
        THEN Some(<<values[1], values[2], values[Len(values)]>>)
        ELSE None

\* A wrong extract_http_starting_header_info: a short line is filled up
\* instead of refused.
ExtractFillsShortLine(line) ==
    LET values == Split(line, SPACE)
    IN  IF Len(values) >= 3
        THEN Some(<<values[1],
                    Join(SubSeq(values, 2, Len(values) - 1), SPACE),
                    values[Len(values)]>>)
        ELSE Some(<<values[1], <<"/">>, <<"H","T","T","P","/","1",".","0">>>>)

\* extract_http_starting_header_info: None, or the triple
\* (first token, interior tokens joined by spaces, last token)
ExtractHttpStartingHeaderInfo(line) ==
    LET values == Split(line, SPACE)
    IN  IF Len(values) >= 3
        THEN Some(<<values[1],
                    Join(SubSeq(values, 2, Len(values) - 1), SPACE),
                    values[Len(values)]>>)
        ELSE None

\* the loop of parse_headers over header_lines, from line i on
RECURSIVE ParseHeaderLines(_, _, _)
ParseHeaderLines(lines, i, headers) ==
    IF i > Len(lines) THEN headers
    ELSE IF Find(lines[i], COLON) = -1
    THEN ParseHeaderLines(lines, i + 1, headers)
    ELSE LET at == Find(lines[i], COLON)
             key == Strip(Slice(lines[i], 0, at))
             value == Strip(Slice(lines[i], at + 1, Len(lines[i])))
         IN  ParseHeaderLines(lines, i + 1,
                IF \E k \in 1..Len(headers) :
                        headers[k].key = key /\ Len(headers[k].vals) > 0
                THEN [k \in 1..Len(headers) |->
                        IF headers[k].key = key
                        THEN [key |-> key, vals |-> Append(headers[k].vals, value)]
                        ELSE headers[k]]
                ELSE SetItem(headers, key, value))

\* A wrong parse_headers: a line without ':' is taken for a header with an
\* empty value.
ParseHeadersBareLineAsKey(data) ==
    LET header_lines == Split(Decode(data), CRLF)
        colon == [i \in 1..Len(header_lines) |->
                    IF Find(header_lines[i], COLON) = -1
                    THEN header_lines[i] \o COLON ELSE header_lines[i]]
    IN  [request_info |-> ExtractHttpStartingHeaderInfo(header_lines[1]),
         headers |-> ParseHeaderLines(colon, 1, <<>>)]

\* parse_headers: every line (the first one included) goes through the
\* header loop; the start line is taken from the first line
ParseHeaders(data) ==
    LET header_lines == Split(Decode(data), CRLF)
    IN  [request_info |-> ExtractHttpStartingHeaderInfo(header_lines[1]),
         headers |-> ParseHeaderLines(header_lines, 1, <<>>)]

\* the lines build_header_bytes writes for one key
RECURSIVE HeaderLinesOf(_, _)
HeaderLinesOf(key, values) ==
    IF Len(values) = 0 THEN <<>>
    ELSE Encode(key \o <<":", " ">> \o values[1] \o CRLF)
         \o HeaderLinesOf(key, Tail(values))

RECURSIVE AllHeaderLines(_)
AllHeaderLines(headers) ==
    IF Len(headers) = 0 THEN <<>>
    ELSE HeaderLinesOf(headers[1].key, headers[1].vals)
         \o AllHeaderLines(Tail(headers))

\* build_header_bytes(request_info, headers); request_info[0] raises
\* TypeError when request_info is None
BuildHeaderBytes(request_info, headers) ==
    IF ~request_info.ok
    THEN [raised |-> TRUE, data |-> <<>>]
    ELSE [raised |-> FALSE,
          data |-> Encode(request_info.val[1] \o SPACE \o request_info.val[2]
                          \o SPACE \o request_info.val[3] \o CRLF)
                   \o AllHeaderLines(headers) \o CRLF]

----------------------------------------------------------------------------
(* SpecHeaders: modify_headers(h, n, v), then header_value(h, n').         *)

MaxHeaders == 2

HNames == {<<"a">>, <<"A">>, <<"b">>}
HValues == {<<"x">>, <<"y">>}
HValueLists == {<<v>> : v \in HValues} \cup {<<"x", "y">>}

HeaderSets ==
    {h \in UNION {[1..n -> [key : HNames, vals : HValueLists]] : n \in 0..MaxHeaders} :
        \A i, j \in 1..Len(h) : i # j => h[i].key # h[j].key}

HIdle ==
    /\ hpc = "idle"
    /\ horig = <<>>
    /\ hset = <<>>
    /\ hname = <<>>
    /\ hvalue = <<>>
    /\ hlookup = <<>>
    /\ hresult = None

HInit ==
    /\ hpc = "start"
    /\ horig \in HeaderSets
    /\ hset = horig
    /\ hname \in HNames
    /\ hvalue \in {<<"y">>, <<"z">>}
    /\ hlookup = <<>>
    /\ hresult = None

HModifyHeaders ==
    /\ hpc = "start"
    /\ LET r == ModifyHeaders(hset, hname, hvalue)
       IN  /\ hset' = r.headers
           /\ hpc' = IF r.raised THEN "raised" ELSE "modified"
    /\ UNCHANGED <<horig, hname, hvalue, hlookup, hresult, otherThanH>>

HHeaderValue ==
    /\ hpc \in {"modified", "raised"}
    /\ \E n \in HNames :
        /\ hlookup' = n
        /\ hresult' = HeaderValue(hset, n)
    /\ hpc' = "looked"
    /\ UNCHANGED <<horig, hset, hname, hvalue, otherThanH>>

HNext == HModifyHeaders \/ HHeaderValue

----------------------------------------------------------------------------
(* Stream (http.py): read_chunk, restore_bytes; read_headers.              *)

\* Stream.__init__: buffer_size=1024
BUFFER_SIZE == 1024

HEADER_END_BYTES == <<"\r", "\n", "\r", "\n">>

\* What sock.recv may return: a non-empty prefix of the bytes in flight, at
\* most buffer_size long; the empty string once the peer is done (EOF).
RecvResults(wire) ==
    IF Len(wire) = 0 THEN {<<>>}
    ELSE {SubSeq(wire, 1, k) : k \in 1..Min(Len(wire), BUFFER_SIZE)}

\* A wrong read_chunk: asks the socket first and falls back on the restored
\* bytes.
ReadChunkRecvFirst(restored, recvd) ==
    IF Len(recvd) > 0
    THEN [data |-> recvd, restored |-> restored, consumed |-> Len(recvd),
          raised |-> FALSE]
    ELSE IF Len(restored) > 0
    THEN [data |-> restored, restored |-> <<>>, consumed |-> 0, raised |-> FALSE]
    ELSE [data |-> <<>>, restored |-> <<>>, consumed |-> 0, raised |-> TRUE]

\* Stream.read_chunk given what recv would return: the restored bytes if
\* there are any (no recv), else the received bytes, else StreamReadException
ReadChunk(restored, recvd) ==
    IF Len(restored) > 0
    THEN [data |-> restored, restored |-> <<>>, consumed |-> 0, raised |-> FALSE]
    ELSE IF Len(recvd) = 0
    THEN [data |-> <<>>, restored |-> <<>>, consumed |-> 0, raised |-> TRUE]
    ELSE [data |-> recvd, restored |-> <<>>, consumed |-> Len(recvd), raised |-> FALSE]

\* A wrong restore_bytes: the bytes handed back are dropped.
RestoreBytesDropped(restored, data) == restored

\* Stream.restore_bytes
RestoreBytes(restored, data) == restored \o data

\* A wrong read_headers: looks for the terminator in the newest chunk only.
ReadHeadersStepNewestChunk(buffer, chunk) ==
    LET buf == buffer \o chunk
        idx == Find(chunk, HEADER_END_BYTES)
    IN  IF Len(buf) < Len(HEADER_END_BYTES) \/ idx = -1
        THEN [done |-> FALSE, buffer |-> buf, header |-> <<>>, misread |-> <<>>]
        ELSE [done |-> TRUE, buffer |-> buf,
              header |-> Slice(buf, 0, Len(buffer) + idx),
              misread |-> Slice(buf, Len(buffer) + idx + Len(HEADER_END_BYTES), Len(buf))]

\* One turn of read_headers' loop after read_chunk returned chunk
ReadHeadersStep(buffer, chunk) ==
    LET buf == buffer \o chunk
        matched_index == Find(buf, HEADER_END_BYTES)
    IN  IF Len(buf) < Len(HEADER_END_BYTES) \/ matched_index = -1
        THEN [done |-> FALSE, buffer |-> buf, header |-> <<>>, misread |-> <<>>]
        ELSE [done |-> TRUE, buffer |-> buf,
              header |-> Slice(buf, 0, matched_index),
              misread |-> Slice(buf, matched_index + Len(HEADER_END_BYTES), Len(buf))]

----------------------------------------------------------------------------
(* SpecStream: a peer sends sorig and closes; the socket hands it out in   *)
(* arbitrary chunks; read_headers runs, then read_chunk until it raises.   *)

MaxStream == 6

SBytes == {"\r", "\n", "a"}

SStreams == UNION {[1..n -> SBytes] : n \in 0..MaxStream}

\* s holds the terminator at 0-based offset a and nowhere before
FirstTerminatorAt(s, a) ==
    /\ MatchAt(s, HEADER_END_BYTES, a)
    /\ \A b \in 0..(a - 1) : ~MatchAt(s, HEADER_END_BYTES, b)

HasTerminator(s) == \E a \in 0..Len(s) : MatchAt(s, HEADER_END_BYTES, a)

SIdle ==
    /\ spc = "idle"
    /\ sorig = <<>>
    /\ swire = <<>>
    /\ srestored = <<>>
    /\ sbuffer = <<>>
    /\ sheader = <<>>
    /\ sreplay = <<>>
    /\ ssplit = FALSE

SInit ==
    /\ spc = "headers"
    /\ sorig \in SStreams
    /\ swire = sorig
    /\ srestored = <<>>
    /\ sbuffer = <<>>
    /\ sheader = <<>>
    /\ sreplay = <<>>
    /\ ssplit = FALSE

\* the recv that returned recvd ended strictly inside the first terminator
SplitsTerminator(recvd) ==
    LET pos == Len(sorig) - Len(swire) + Len(recvd)
    IN  \E a \in 0..Len(sorig) :
            FirstTerminatorAt(sorig, a) /\ a < pos /\ pos < a + Len(HEADER_END_BYTES)

\* read_headers: one read_chunk and one turn of the loop
SReadHeaders ==
    /\ spc = "headers"
    /\ \E recvd \in RecvResults(swire) :
        LET r == ReadChunk(srestored, recvd)
            step == ReadHeadersStep(sbuffer, r.data)
        IN  /\ swire' = Slice(swire, r.consumed, Len(swire))
            /\ ssplit' = (ssplit \/ (r.consumed > 0 /\ SplitsTerminator(recvd)))
            /\ IF r.raised
               THEN /\ spc' = "hdr_eof"
                    /\ srestored' = r.restored
                    /\ UNCHANGED <<sbuffer, sheader>>
               ELSE /\ sbuffer' = step.buffer
                    /\ sheader' = step.header
                    /\ srestored' = IF step.done
                                    THEN RestoreBytes(r.restored, step.misread)
                                    ELSE r.restored
                    /\ spc' = IF step.done THEN "replay" ELSE "headers"
    /\ UNCHANGED <<sorig, sreplay, otherThanS>>

\* read_chunk after read_headers returned
SReadChunk ==
    /\ spc = "replay"
    /\ \E recvd \in RecvResults(swire) :
        LET r == ReadChunk(srestored, recvd)
        IN  /\ swire' = Slice(swire, r.consumed, Len(swire))
            /\ srestored' = r.restored
            /\ sreplay' = sreplay \o r.data
            /\ spc' = IF r.raised THEN "eof" ELSE "replay"
    /\ UNCHANGED <<sorig, sbuffer, sheader, ssplit, otherThanS>>

SNext == SReadHeaders \/ SReadChunk

----------------------------------------------------------------------------
(* WebServer (server/__init__.py): handle_client, serve_page and the two   *)
(* pumps of one relayed connection.                                        *)

HTTP10 ==
    <<"H","T","T","P","/","1",".","0">>
CONTENT_TYPE ==
    <<"C","o","n","t","e","n","t","-","T","y","p","e">>
TEXT_HTML ==
    <<"t","e","x","t","/","h","t","m","l">>
UPGRADE ==
    <<"U","p","g","r","a","d","e">>
WEBSOCKET ==
    <<"w","e","b","s","o","c","k","e","t">>
CONNECTION ==
    <<"C","o","n","n","e","c","t","i","o","n">>
CLOSE ==
    <<"C","l","o","s","e">>
X_PROXY_SERVER ==
    <<"X","-","P","r","o","x","y","-","S","e","r","v","e","r">>
DJANGO_QUIK_STREAM ==
    <<"D","j","a","n","g","o"," ","Q","u","i","k"," ","S","t","r","e","a",
      "m">>
BODY_END ==
    <<"<","/","b","o","d","y",">">>

\* serve_refresh_event_page: the response headers and a notification line,
\* each as one message
PREAMBLE ==
    "HTTP/1.0 200 OK\r\nContent-Type: text/event-stream\r\nCache-Control: no-cache\r\nConnection: keep-alive\r\n\r\n"
FILE_CHANGED ==
    "data: file changed\n\n"

\* WebServer.refresh_path: '/' + a fresh uuid4 + '/'
REFRESH_PATH ==
    <<"/", "u", "u", "i", "d", "/">>

\* injected_code: the reload script, as three tokens
INJECTED_CODE ==
    <<"<script>", "new EventSource(refresh_path) ... location.reload()", "</script>">>

\* A wrong inject_event_code: the tag is looked for in lower case only.
RECURSIVE InjectEventCodeCaseSensitive(_)
InjectEventCodeCaseSensitive(html) ==
    LET i == Find(html, BODY_END)
    IN  IF i = -1 THEN html
        ELSE Slice(html, 0, i) \o INJECTED_CODE \o BODY_END
             \o InjectEventCodeCaseSensitive(
                    Slice(html, i + Len(BODY_END), Len(html)))

\* inject_event_code: re.sub puts the script in front of every
\* case-insensitive match of </body> and writes the tag back in lower case
RECURSIVE InjectEventCode(_)
InjectEventCode(html) ==
    LET i == Find(Lower(html), BODY_END)
    IN  IF i = -1 THEN html
        ELSE Slice(html, 0, i) \o INJECTED_CODE \o BODY_END
             \o InjectEventCode(Slice(html, i + Len(BODY_END), Len(html)))

\* a Python value is truthy: an Optional[str] that is neither None nor ''
Truthy(opt) == opt.ok /\ Len(opt.val) > 0

\* read_text_body(stream, content_length) raises TypeError at its first
\* test `read_size < content_length` unless content_length is a number
ReadTextBodyRaises(stream, content_length) == content_length # "int"

\* lines 234: content_type and 'text/html' in content_type
IsTextHtml(headers) ==
    LET content_type == HeaderValue(headers, CONTENT_TYPE)
    IN  Truthy(content_type) /\ Contains(content_type.val, TEXT_HTML)

\* lines 264-276 (no try around them): the header bytes for the streaming
\* path, or an uncaught exception (response_info is None, or modify_headers
\* raised)
StreamPathHeaders(parsed) ==
    LET upgrade_header == HeaderValue(parsed.headers, UPGRADE)
        downgrade == ~Truthy(upgrade_header)
                     \/ ~Contains(Lower(upgrade_header.val), WEBSOCKET)
        info == IF downgrade /\ parsed.request_info.ok
                THEN Some(<<HTTP10, parsed.request_info.val[2],
                            parsed.request_info.val[3]>>)
                ELSE parsed.request_info
        m1 == IF downgrade
              THEN ModifyHeaders(parsed.headers, CONNECTION, CLOSE)
              ELSE [headers |-> parsed.headers, raised |-> FALSE]
        m2 == ModifyHeaders(m1.headers, X_PROXY_SERVER, DJANGO_QUIK_STREAM)
        built == BuildHeaderBytes(info, m2.headers)
    IN  IF (downgrade /\ ~parsed.request_info.ok) \/ m1.raised \/ m2.raised
           \/ built.raised
        THEN [raised |-> TRUE, data |-> <<>>]
        ELSE built

\* serve_page lines 341-342: header_bytes_to_proxy
HeaderBytesToProxy(parsed) ==
    BuildHeaderBytes(Some(<<parsed.request_info.val[1],
                            parsed.request_info.val[2], HTTP10>>),
                     parsed.headers).data

\* The recv results the relay specifications follow: up to MaxRecv bytes,
\* or everything in flight.
MaxRecv == 3

RelayRecvResults(wire) ==
    {recvd \in RecvResults(wire) :
        Len(recvd) <= MaxRecv \/ Len(recvd) = Min(Len(wire), BUFFER_SIZE)}

\* Stream.read_chunk on a live socket: every result it may have now.  With
\* restored bytes it returns them; on a socket closed by this process recv
\* raises OSError; with nothing in flight recv blocks while the peer is open
\* and returns b'' (StreamReadException) once the peer has closed.
Reads(restored, closed, wire, peer) ==
    IF Len(restored) > 0 THEN {ReadChunk(restored, <<>>)}
    ELSE IF closed
    THEN {[data |-> <<>>, restored |-> <<>>, consumed |-> 0, raised |-> TRUE]}
    ELSE IF Len(wire) = 0 /\ peer = "open" THEN {}
    ELSE {ReadChunk(restored, recvd) : recvd \in RelayRecvResults(wire)}

\* Stream.write_chunk raises StreamWriteException: sendall fails on a socket
\* closed by this process or by the peer
WriteFails(closed, peer) == closed \/ peer = "closed"

\* a thread has ended: it returned, or an uncaught exception ended it
Terminated(pc) == pc \in {"done", "crashed"}

\* A wrong join: returns at once.
JoinReturnsAtOnce(pc) == TRUE

\* thread.join() returns once the thread has ended
JoinReturns(pc) == Terminated(pc)

----------------------------------------------------------------------------
(* SpecRelay                                                               *)

Requests == {
    <<"G","E","T"," ","/"," ","H","T","T","P","/","1",".","1","\r","\n",
      "\r","\n">>,
    <<"P","O","S","T"," ","/"," ","H","T","T","P","/","1",".","1","\r","\n",
      "H","o","s","t",":"," ","a","\r","\n","\r","\n","x","y">>,
    <<"G","E","T"," ","/","u","u","i","d","/"," ","H","T","T","P","/","1",
      ".","1","\r","\n","\r","\n">>,
    <<"G","E","T"," ","/","u","u","i","d","/","x"," ","H","T","T","P","/",
      "1",".","1","\r","\n","\r","\n">>,
    <<"G","E","T"," ","/","\r","\n","H","o","s","t",":"," ","a","\r","\n",
      "\r","\n">>}

R_HTML ==
    <<"H","T","T","P","/","1",".","1"," ","2","0","0"," ","O","K","\r","\n",
      "C","o","n","t","e","n","t","-","T","y","p","e",":"," ","t","e","x",
      "t","/","h","t","m","l","\r","\n","C","o","n","t","e","n","t","-","L",
      "e","n","g","t","h",":"," ","9","\r","\n","\r","\n","h","i","<","/",
      "b","o","d","y",">">>
R_BIN ==
    <<"H","T","T","P","/","1",".","1"," ","2","0","0"," ","O","K","\r","\n",
      "C","o","n","t","e","n","t","-","T","y","p","e",":"," ","i","m","a",
      "g","e","/","p","n","g","\r","\n","\r","\n","a","0xFF","b">>
R_BAD_STATUS ==
    <<"H","T","T","P","/","1",".","1","\r","\n","C","o","n","t","e","n","t",
      "-","T","y","p","e",":"," ","i","m","a","g","e","/","p","n","g","\r",
      "\n","\r","\n","a","b">>
R_WEBSOCKET ==
    <<"H","T","T","P","/","1",".","1"," ","1","0","1"," ","S","\r","\n","U",
      "p","g","r","a","d","e",":"," ","W","e","b","S","o","c","k","e","t",
      "\r","\n","\r","\n","a","b">>
R_LOWER_CONNECTION ==
    <<"H","T","T","P","/","1",".","1"," ","2","0","0"," ","O","K","\r","\n",
      "c","o","n","n","e","c","t","i","o","n",":"," ","x","\r","\n","C","o",
      "n","t","e","n","t","-","T","y","p","e",":"," ","a","/","b","\r","\n",
      "\r","\n","a","b">>

Responses == {R_HTML, R_BIN, R_BAD_STATUS, R_WEBSOCKET, R_LOWER_CONNECTION}

RIdle ==
    /\ rreq = <<>> /\ rresp = <<>>
    /\ rcwire = <<>> /\ rcpeer = "open" /\ rcout = <<>>
    /\ rcclosed = FALSE /\ rcrest = <<>>
    /\ rbconn = "none" /\ rbwire = <<>> /\ rbpeer = "open" /\ rbout = <<>>
    /\ rbclosed = FALSE /\ rbrest = <<>>
    /\ rhpc = "idle" /\ rhbuf = <<>> /\ rhraw = <<>>
    /\ c2dpc = "idle" /\ c2dchunk = <<>>
    /\ d2cpc = "idle" /\ d2cbuf = <<>> /\ d2craw = <<>> /\ d2chdr = <<>>
    /\ d2cchunk = <<>> /\ rmisread = FALSE

\* listen(): a client was accepted and handle_client starts on its socket
RInit ==
    /\ rreq \in Requests /\ rresp \in Responses
    /\ rcwire = rreq /\ rcpeer = "open" /\ rcout = <<>>
    /\ rcclosed = FALSE /\ rcrest = <<>>
    /\ rbconn = "none" /\ rbwire = <<>> /\ rbpeer = "open" /\ rbout = <<>>
    /\ rbclosed = FALSE /\ rbrest = <<>>
    /\ rhpc = "read_headers" /\ rhbuf = <<>> /\ rhraw = <<>>
    /\ c2dpc = "idle" /\ c2dchunk = <<>>
    /\ d2cpc = "idle" /\ d2cbuf = <<>> /\ d2craw = <<>> /\ d2chdr = <<>>
    /\ d2cchunk = <<>> /\ rmisread = FALSE

\* ---- the peers

\* the client closes its connection
ClientCloses ==
    /\ rhpc # "idle"
    /\ rcpeer = "open"
    /\ rcpeer' = "closed"
    /\ UNCHANGED <<rinput, rcwire, rcout, rcclosed, rcrest, rbackend,
                   rhandler, rc2d, rd2c, otherThanR>>

\* the backend closes its connection
BackendCloses ==
    /\ rbconn = "open"
    /\ rbpeer = "open"
    /\ rbpeer' = "closed"
    /\ UNCHANGED <<rinput, rclient, rbconn, rbwire, rbout, rbclosed, rbrest,
                   rhandler, rc2d, rd2c, otherThanR>>

\* ---- handle_client and serve_page

\* handle_client line 158: read_headers(stream), one read_chunk per step
RHReadHeaders ==
    /\ rhpc = "read_headers"
    /\ \E r \in Reads(rcrest, rcclosed, rcwire, rcpeer) :
        \E step \in {ReadHeadersStep(rhbuf, r.data)} :
            /\ rcwire' = Slice(rcwire, r.consumed, Len(rcwire))
            /\ IF r.raised
               THEN /\ rhpc' = "except"
                    /\ rcrest' = r.restored
                    /\ UNCHANGED <<rhbuf, rhraw>>
               ELSE /\ rhbuf' = IF step.done THEN <<>> ELSE step.buffer
                    /\ rhraw' = step.header
                    /\ rcrest' = IF step.done
                                 THEN RestoreBytes(r.restored, step.misread)
                                 ELSE r.restored
                    /\ rhpc' = IF step.done THEN "serve" ELSE "read_headers"
    /\ UNCHANGED <<rinput, rcpeer, rcout, rcclosed, rbackend, rc2d, rd2c,
                   otherThanR>>

\* handle_client lines 159-160 and serve_page lines 335-345: parse, route,
\* build the request for the backend, create_connection (which may raise)
RHServePage ==
    /\ rhpc = "serve"
    /\ LET parsed == ParseHeaders(rhraw)
       IN  IF ~parsed.request_info.ok
           THEN /\ rhpc' = "except"
                /\ UNCHANGED <<rbconn, rbwire>>
           ELSE IF StartsWith(parsed.request_info.val[2], REFRESH_PATH)
           THEN /\ rhpc' = "refresh"
                /\ UNCHANGED <<rbconn, rbwire>>
           ELSE \E connected \in BOOLEAN :
                IF connected
                THEN /\ rbconn' = "open"
                     /\ rbwire' = rresp
                     /\ rhpc' = "write_request"
                ELSE /\ rhpc' = "except"
                     /\ UNCHANGED <<rbconn, rbwire>>
    /\ UNCHANGED <<rinput, rclient, rbpeer, rbout, rbclosed, rbrest, rhbuf,
                   rhraw, rc2d, rd2c, otherThanR>>

\* serve_page line 339 and serve_refresh_event_page lines 298-322: write the
\* response headers and register the callback; the handler returns and the
\* connection stays open.  A failed write goes to handle_client's except.
RHServeRefreshEventPage ==
    /\ rhpc = "refresh"
    /\ IF WriteFails(rcclosed, rcpeer)
       THEN /\ rhpc' = "except"
            /\ UNCHANGED rcout
       ELSE /\ rcout' = Append(rcout, PREAMBLE)
            /\ rhpc' = "subscribed"
    /\ UNCHANGED <<rinput, rcwire, rcpeer, rcclosed, rcrest, rbackend, rhbuf,
                   rhraw, rc2d, rd2c, otherThanR>>

\* serve_page lines 346-347: stream_proxy.write_chunk(header_bytes_to_proxy)
RHWriteRequest ==
    /\ rhpc = "write_request"
    /\ IF WriteFails(rbclosed, rbpeer)
       THEN /\ rhpc' = "except"
            /\ UNCHANGED rbout
       ELSE /\ rbout' = rbout \o HeaderBytesToProxy(ParseHeaders(rhraw))
            /\ rhpc' = "start_c2d"
    /\ UNCHANGED <<rinput, rclient, rbconn, rbwire, rbpeer, rbclosed, rbrest,
                   rhbuf, rhraw, rc2d, rd2c, otherThanR>>

\* serve_page lines 351-357: start the client -> backend pump
RHStartC2D ==
    /\ rhpc = "start_c2d"
    /\ c2dpc' = "read"
    /\ rhpc' = "start_d2c"
    /\ UNCHANGED <<rinput, rclient, rbackend, rhbuf, rhraw, c2dchunk, rd2c,
                   otherThanR>>

\* serve_page lines 360-366: start the backend -> client pump
RHStartD2C ==
    /\ rhpc = "start_d2c"
    /\ d2cpc' = "read_headers"
    /\ rhpc' = "join_c2d"
    /\ UNCHANGED <<rinput, rclient, rbackend, rhbuf, rhraw, rc2d, d2cbuf,
                   d2craw, d2chdr, d2cchunk, rmisread, otherThanR>>

\* serve_page lines 369-370: join the first thread
RHJoinC2D ==
    /\ rhpc = "join_c2d"
    /\ JoinReturns(c2dpc)
    /\ rhpc' = "join_d2c"
    /\ UNCHANGED <<rinput, rclient, rbackend, rhbuf, rhraw, rc2d, rd2c,
                   otherThanR>>

\* serve_page lines 369-370: join the second thread, then return
RHJoinD2C ==
    /\ rhpc = "join_d2c"
    /\ JoinReturns(d2cpc)
    /\ rhpc' = "returned"
    /\ UNCHANGED <<rinput, rclient, rbackend, rhbuf, rhraw, rc2d, rd2c,
                   otherThanR>>

\* handle_client lines 161-162: except ...: stream.close().  Nothing closes
\* stream_proxy, a local of serve_page: whether its socket is closed when
\* the object is collected, and when, is up to the interpreter.
RHExcept ==
    /\ rhpc = "except"
    /\ rcclosed' = TRUE
    /\ rhpc' = "closed"
    /\ \E collected \in BOOLEAN :
        rbclosed' = (rbclosed \/ (collected /\ rbconn = "open"))
    /\ UNCHANGED <<rinput, rcwire, rcpeer, rcout, rcrest, rbconn, rbwire,
                   rbpeer, rbout, rbrest, rhbuf, rhraw, rc2d, rd2c,
                   otherThanR>>

\* ---- send_data_client_to_django_server

\* line 202: stream_client.read_chunk()
C2DRead ==
    /\ c2dpc = "read"
    /\ \E r \in Reads(rcrest, rcclosed, rcwire, rcpeer) :
        /\ rcwire' = Slice(rcwire, r.consumed, Len(rcwire))
        /\ rcrest' = r.restored
        /\ c2dchunk' = r.data
        /\ c2dpc' = IF r.raised THEN "close_client" ELSE "write"
    /\ UNCHANGED <<rinput, rcpeer, rcout, rcclosed, rbackend, rhandler, rd2c,
                   otherThanR>>

\* line 202: stream_target.write_chunk(...)
C2DWrite ==
    /\ c2dpc = "write"
    /\ IF WriteFails(rbclosed, rbpeer)
       THEN /\ c2dpc' = "close_client"
            /\ UNCHANGED rbout
       ELSE /\ rbout' = rbout \o c2dchunk
            /\ c2dpc' = "read"
    /\ c2dchunk' = <<>>
    /\ UNCHANGED <<rinput, rclient, rbconn, rbwire, rbpeer, rbclosed, rbrest,
                   rhandler, rd2c, otherThanR>>

\* line 205: stream_client.close()
C2DCloseClient ==
    /\ c2dpc = "close_client"
    /\ rcclosed' = TRUE
    /\ c2dpc' = "close_target"
    /\ UNCHANGED <<rinput, rcwire, rcpeer, rcout, rcrest, rbackend, rhandler,
                   c2dchunk, rd2c, otherThanR>>

\* lines 206-207: stream_target.close(); return
C2DCloseTarget ==
    /\ c2dpc = "close_target"
    /\ rbclosed' = TRUE
    /\ c2dpc' = "done"
    /\ UNCHANGED <<rinput, rclient, rbconn, rbwire, rbpeer, rbout, rbrest,
                   rhandler, c2dchunk, rd2c, otherThanR>>

\* ---- send_data_django_server_to_client

\* lines 219-225: read_headers(stream_target), one read_chunk per step
D2CReadHeaders ==
    /\ d2cpc = "read_headers"
    /\ \E r \in Reads(rbrest, rbclosed, rbwire, rbpeer) :
        \E step \in {ReadHeadersStep(d2cbuf, r.data)} :
            /\ rbwire' = Slice(rbwire, r.consumed, Len(rbwire))
            /\ IF r.raised
               THEN /\ d2cpc' = "close_target"
                    /\ rbrest' = r.restored
                    /\ UNCHANGED <<d2cbuf, d2craw, rmisread>>
               ELSE /\ d2cbuf' = IF step.done THEN <<>> ELSE step.buffer
                    /\ d2craw' = step.header
                    /\ rbrest' = IF step.done
                                 THEN RestoreBytes(r.restored, step.misread)
                                 ELSE r.restored
                    /\ rmisread' = (step.done /\ Len(step.misread) > 0)
                    /\ d2cpc' = IF step.done THEN "dispatch" ELSE "read_headers"
    /\ UNCHANGED <<rinput, rclient, rbconn, rbpeer, rbout, rbclosed, rhandler,
                   rc2d, d2chdr, d2cchunk, otherThanR>>

\* lines 227-249 and 264-276.  On the text/html path line 237 calls
\* read_text_body(headers, stream_target): its content_length is the Stream,
\* so it raises before reading anything and lines 238-258 never run.  On
\* the other path an exception is not caught and ends the thread.
D2CDispatch ==
    /\ d2cpc = "dispatch"
    /\ LET parsed == ParseHeaders(d2craw)
           sh == StreamPathHeaders(parsed)
       IN  IF IsTextHtml(parsed.headers)
           THEN /\ d2cpc' = IF ReadTextBodyRaises("OrderedDict", "Stream")
                            THEN "html_close_client"
                            ELSE "html_read_body"
                /\ UNCHANGED d2chdr
           ELSE IF sh.raised
           THEN /\ d2cpc' = "crashed"
                /\ UNCHANGED d2chdr
           ELSE /\ d2chdr' = sh.data
                /\ d2cpc' = "write_headers"
    /\ UNCHANGED <<rinput, rclient, rbackend, rhandler, rc2d, d2cbuf, d2craw,
                   d2cchunk, rmisread, otherThanR>>

\* line 279 (no try around it): stream_client.write_chunk(header_bytes)
D2CWriteHeaders ==
    /\ d2cpc = "write_headers"
    /\ IF WriteFails(rcclosed, rcpeer)
       THEN /\ d2cpc' = "crashed"
            /\ UNCHANGED rcout
       ELSE /\ rcout' = rcout \o d2chdr
            /\ d2cpc' = "read"
    /\ UNCHANGED <<rinput, rcwire, rcpeer, rcclosed, rcrest, rbackend,
                   rhandler, rc2d, d2cbuf, d2craw, d2chdr, d2cchunk, rmisread,
                   otherThanR>>

\* line 284: stream_target.read_chunk()
D2CRead ==
    /\ d2cpc = "read"
    /\ \E r \in Reads(rbrest, rbclosed, rbwire, rbpeer) :
        /\ rbwire' = Slice(rbwire, r.consumed, Len(rbwire))
        /\ rbrest' = r.restored
        /\ d2cchunk' = r.data
        /\ d2cpc' = IF r.raised THEN "close_target" ELSE "write"
    /\ UNCHANGED <<rinput, rclient, rbconn, rbpeer, rbout, rbclosed, rhandler,
                   rc2d, d2cbuf, d2craw, d2chdr, rmisread, otherThanR>>

\* line 284: stream_client.write_chunk(...)
D2CWrite ==
    /\ d2cpc = "write"
    /\ IF WriteFails(rcclosed, rcpeer)
       THEN /\ d2cpc' = "close_target"
            /\ UNCHANGED rcout
       ELSE /\ rcout' = rcout \o d2cchunk
            /\ d2cpc' = "read"
    /\ d2cchunk' = <<>>
    /\ UNCHANGED <<rinput, rcwire, rcpeer, rcclosed, rcrest, rbackend,
                   rhandler, rc2d, d2cbuf, d2craw, d2chdr, rmisread,
                   otherThanR>>

\* lines 223 and 287: stream_target.close()
D2CCloseTarget ==
    /\ d2cpc = "close_target"
    /\ rbclosed' = TRUE
    /\ d2cpc' = "close_client"
    /\ UNCHANGED <<rinput, rclient, rbconn, rbwire, rbpeer, rbout, rbrest,
                   rhandler, rc2d, d2cbuf, d2craw, d2chdr, d2cchunk, rmisread,
                   otherThanR>>

\* lines 224-225 and 288-289: stream_client.close(); return
D2CCloseClient ==
    /\ d2cpc = "close_client"
    /\ rcclosed' = TRUE
    /\ d2cpc' = "done"
    /\ UNCHANGED <<rinput, rcwire, rcpeer, rcout, rcrest, rbackend, rhandler,
                   rc2d, d2cbuf, d2craw, d2chdr, d2cchunk, rmisread,
                   otherThanR>>

\* line 260: except ...: stream_client.close()
D2CHtmlCloseClient ==
    /\ d2cpc = "html_close_client"
    /\ rcclosed' = TRUE
    /\ d2cpc' = "html_close_target"
    /\ UNCHANGED <<rinput, rcwire, rcpeer, rcout, rcrest, rbackend, rhandler,
                   rc2d, d2cbuf, d2craw, d2chdr, d2cchunk, rmisread,
                   otherThanR>>

\* line 261: stream_target.close(), and the function ends
D2CHtmlCloseTarget ==
    /\ d2cpc = "html_close_target"
    /\ rbclosed' = TRUE
    /\ d2cpc' = "done"
    /\ UNCHANGED <<rinput, rclient, rbconn, rbwire, rbpeer, rbout, rbrest,
                   rhandler, rc2d, d2cbuf, d2craw, d2chdr, d2cchunk, rmisread,
                   otherThanR>>

HandlerStep ==
    \/ RHReadHeaders \/ RHServePage \/ RHServeRefreshEventPage
    \/ RHWriteRequest \/ RHStartC2D
    \/ RHStartD2C \/ RHJoinC2D \/ RHJoinD2C \/ RHExcept

C2DStep == C2DRead \/ C2DWrite \/ C2DCloseClient \/ C2DCloseTarget

D2CStep ==
    \/ D2CReadHeaders \/ D2CDispatch \/ D2CWriteHeaders \/ D2CRead \/ D2CWrite
    \/ D2CCloseTarget \/ D2CCloseClient \/ D2CHtmlCloseClient
    \/ D2CHtmlCloseTarget

RNext ==
    \/ ClientCloses \/ BackendCloses
    \/ RHReadHeaders \/ RHServePage \/ RHServeRefreshEventPage
    \/ RHWriteRequest \/ RHStartC2D
    \/ RHStartD2C \/ RHJoinC2D \/ RHJoinD2C \/ RHExcept
    \/ C2DRead \/ C2DWrite \/ C2DCloseClient \/ C2DCloseTarget
    \/ D2CReadHeaders \/ D2CDispatch \/ D2CWriteHeaders \/ D2CRead \/ D2CWrite
    \/ D2CCloseTarget \/ D2CCloseClient \/ D2CHtmlCloseClient
    \/ D2CHtmlCloseTarget

----------------------------------------------------------------------------
(* ThreadSafeChangeCallbacks, FilesWatchEventHandler and                   *)
(* WebServer.serve_refresh_event_page (server/__init__.py).                *)

\* key in dir_change_callbacks
Registered(reg, key) == \E i \in 1..Len(reg) : reg[i] = key

\* A wrong set_callback: the entry is not stored.
SetDefaultDropped(reg, key) == reg

\* set_callback: dir_change_callbacks.setdefault(key, callback)
SetDefault(reg, key) == IF Registered(reg, key) THEN reg ELSE Append(reg, key)

\* A wrong removal: the entry stays.
DelKept(reg, key) == reg

\* remove_callback: del dir_change_callbacks[key], for a key that is there
Del(reg, key) ==
    LET at == CHOOSE i \in 1..Len(reg) : reg[i] = key
    IN  SubSeq(reg, 1, at - 1) \o SubSeq(reg, at + 1, Len(reg))

\* A wrong get_all: the newest entry is left out of the copy.
GetAllButNewest(reg) == SubSeq(reg, 1, Len(reg) - 1)

\* get_all: dir_change_callbacks.copy()
GetAll(reg) == reg

\* one operation of the registry applied on its own: what a register
\* (no-op if the id is present) or an unregister (no-op if absent) gives
RefApply(reg, e) ==
    IF e.op = "set"
    THEN IF e.key \in {reg[i] : i \in 1..Len(reg)} THEN reg
         ELSE reg \o <<e.key>>
    ELSE SelectSeq(reg, LAMBDA k : k # e.key)

\* A `with` block that leaves without releasing.
ReleaseSkipped(lock) == TRUE

\* leaving `with self.lock` releases the lock
Release(lock) == FALSE

\* A wrong serve_refresh_event_page: registers whatever the write did.
AfterPreambleAlwaysRegisters(failed) == "set_callback"

\* serve_refresh_event_page after line 307: a write_chunk that raised leaves
\* the function, and handle_client's except closes the stream; otherwise
\* line 322 is next
AfterPreamble(failed) == IF failed THEN "closed" ELSE "set_callback"

\* A lock that never makes a thread wait.
CanAcquireAlways(lock) == TRUE

\* `with self.lock` proceeds once the lock is free
CanAcquire(lock) == ~lock

\* A cancel that does nothing.
CancelIgnored(state) == state

\* Timer.cancel(): a Timer still waiting will not run its function; one
\* that has fired is not affected
Cancel(state) == IF state = "armed" THEN "cancelled" ELSE state

----------------------------------------------------------------------------
(* SpecNotify                                                              *)

MaxConns == 2
MaxEvents == 2

Conns == 1..MaxConns
Timers == 1..MaxEvents

\* WebServer.__init__: an empty registry, a handler with no Timer
NInit ==
    /\ nreg = <<>> /\ nlock = FALSE /\ nref = <<>>
    /\ npeer = [c \in Conns |-> "open"]
    /\ nhpc = [c \in Conns |-> "idle"]
    /\ nout = [c \in Conns |-> <<>>]
    /\ ntimer = 0
    /\ ntstate = [t \in Timers |-> "none"]
    /\ nbursts = 0
    /\ nsubscribed = {}
    /\ nbpc = [t \in Timers |-> "idle"]
    /\ nsnap = [t \in Timers |-> <<>>]
    /\ nidx = [t \in Timers |-> 0]
    /\ ninvoked = [t \in Timers |-> [c \in Conns |-> 0]]

NIdle == NInit

\* ---- the clients

\* a client closes its connection
NClientGone(c) ==
    /\ nhpc[c] # "idle"
    /\ npeer[c] = "open"
    /\ npeer' = [npeer EXCEPT ![c] = "closed"]
    /\ UNCHANGED <<nregistry, nhpc, nout, nwatch, nnotify, otherThanN>>

\* ---- serve_refresh_event_page

\* a client asks for refresh_path and serve_page line 338 routes it here;
\* lines 298-307 write the response headers.  With the client already gone
\* the write fails and handle_client's except closes the stream.
NWritePreamble(c) ==
    /\ nhpc[c] = "idle"
    /\ \E peer \in {"open", "closed"} :
        /\ npeer' = [npeer EXCEPT ![c] = peer]
        /\ nhpc' = [nhpc EXCEPT ![c] = AfterPreamble(WriteFails(FALSE, peer))]
        /\ IF WriteFails(FALSE, peer)
           THEN UNCHANGED nout
           ELSE nout' = [nout EXCEPT ![c] = Append(@, PREAMBLE)]
    /\ UNCHANGED <<nregistry, nwatch, nnotify, otherThanN>>

\* line 322 and set_callback lines 50-51; the handler then returns and the
\* connection stays open
NSetCallback(c) ==
    /\ nhpc[c] = "set_callback"
    /\ CanAcquire(nlock)
    /\ nreg' = SetDefault(nreg, c)
    /\ nref' = RefApply(nref, [op |-> "set", key |-> c])
    /\ nlock' = Release(TRUE)
    /\ nhpc' = [nhpc EXCEPT ![c] = "done"]
    /\ UNCHANGED <<npeer, nout, nwatch, nnotify, otherThanN>>

\* ---- FilesWatchEventHandler

\* on_modified, run by the observer's one dispatching thread: cancel the
\* Timer in self.timer, start a new one
OnModified ==
    /\ ntimer < MaxEvents
    /\ ntimer' = ntimer + 1
    /\ ntstate' = [t \in Timers |->
                    IF t = ntimer THEN Cancel(ntstate[t])
                    ELSE IF t = ntimer + 1 THEN "armed"
                    ELSE ntstate[t]]
    /\ nbursts' = IF ntimer = 0 \/ ntstate[ntimer] = "fired"
                  THEN nbursts + 1 ELSE nbursts
    /\ nsubscribed' = IF ntimer = 0 THEN {c \in Conns : nhpc[c] = "done"}
                      ELSE {}
    /\ UNCHANGED <<nregistry, nconns, nnotify, otherThanN>>

\* the delay of a Timer that was not cancelled is over: its thread calls
\* trigger_notify
NTimerFires(t) ==
    /\ ntstate[t] = "armed"
    /\ ntstate' = [ntstate EXCEPT ![t] = "fired"]
    /\ nbpc' = [nbpc EXCEPT ![t] = "get_all"]
    /\ UNCHANGED <<nregistry, nconns, ntimer, nbursts, nsubscribed, nsnap,
                   nidx, ninvoked, otherThanN>>

\* trigger_notify line 96 and get_all lines 70-71
NGetAll(t) ==
    /\ nbpc[t] = "get_all"
    /\ CanAcquire(nlock)
    /\ nsnap' = [nsnap EXCEPT ![t] = GetAll(nreg)]
    /\ nidx' = [nidx EXCEPT ![t] = 1]
    /\ nbpc' = [nbpc EXCEPT ![t] = IF Len(GetAll(nreg)) = 0 THEN "done"
                                   ELSE "invoke"]
    /\ nlock' = Release(TRUE)
    /\ UNCHANGED <<nreg, nref, nconns, nwatch, ninvoked, otherThanN>>

\* lines 96-98 and file_change_callback lines 315-317: call the next
\* callback of the copy, which writes one line to its client
NInvoke(t) ==
    /\ nbpc[t] = "invoke"
    /\ LET c == nsnap[t][nidx[t]]
       IN  /\ ninvoked' = [ninvoked EXCEPT ![t][c] = @ + 1]
           /\ IF WriteFails(FALSE, npeer[c])
              THEN /\ nbpc' = [nbpc EXCEPT ![t] = "remove"]
                   /\ UNCHANGED <<nout, nidx>>
              ELSE /\ nout' = [nout EXCEPT ![c] = Append(@, FILE_CHANGED)]
                   /\ nidx' = [nidx EXCEPT ![t] = @ + 1]
                   /\ nbpc' = [nbpc EXCEPT ![t] =
                                  IF nidx[t] = Len(nsnap[t]) THEN "done"
                                  ELSE "invoke"]
    /\ UNCHANGED <<nregistry, npeer, nhpc, nwatch, nsnap, otherThanN>>

\* file_change_callback lines 318-319 and remove_callback lines 60-61:
\* take the lock and test dir_change_callbacks.get(key)
NRemoveGet(t) ==
    /\ nbpc[t] = "remove"
    /\ CanAcquire(nlock)
    /\ nlock' = TRUE
    /\ nbpc' = [nbpc EXCEPT ![t] =
                  IF Registered(nreg, nsnap[t][nidx[t]]) THEN "remove_del"
                  ELSE "remove_skip"]
    /\ UNCHANGED <<nreg, nref, nconns, nwatch, nsnap, nidx, ninvoked,
                   otherThanN>>

\* remove_callback line 62: del dir_change_callbacks[key] (KeyError, which
\* nothing catches, if the key is gone), leave the lock, and go on with
\* the loop of trigger_notify
NRemoveDel(t) ==
    /\ nbpc[t] \in {"remove_del", "remove_skip"}
    /\ LET c == nsnap[t][nidx[t]]
           raised == nbpc[t] = "remove_del" /\ ~Registered(nreg, c)
       IN  /\ nreg' = IF nbpc[t] = "remove_del" /\ ~raised
                      THEN Del(nreg, c) ELSE nreg
           /\ nref' = IF raised THEN nref
                      ELSE RefApply(nref, [op |-> "remove", key |-> c])
           /\ nidx' = [nidx EXCEPT ![t] = IF raised THEN @ ELSE @ + 1]
           /\ nbpc' = [nbpc EXCEPT ![t] =
                          IF raised THEN "crashed"
                          ELSE IF nidx[t] = Len(nsnap[t]) THEN "done"
                          ELSE "invoke"]
    /\ nlock' = Release(TRUE)
    /\ UNCHANGED <<nconns, nwatch, nsnap, ninvoked, otherThanN>>

NNext ==
    \/ \E c \in Conns : NClientGone(c)
    \/ \E c \in Conns : NWritePreamble(c)
    \/ \E c \in Conns : NSetCallback(c)
    \/ OnModified
    \/ \E t \in Timers : NTimerFires(t)
    \/ \E t \in Timers : NGetAll(t)
    \/ \E t \in Timers : NInvoke(t)
    \/ \E t \in Timers : NRemoveGet(t)
    \/ \E t \in Timers : NRemoveDel(t)

----------------------------------------------------------------------------
(* SpecCodec: build_header_bytes(info, headers), then parse_headers on the *)
(* header block it produced.                                               *)

MaxCodecHeaders == 2

\* start-line triples as extract_http_starting_header_info gives them:
\* first token, interior tokens joined by spaces, last token
KStartLines == {
    <<<<"G","E","T">>, <<"/">>, <<"H","T","T","P","/","1",".","1">>>>,
    <<<<"G","E","T">>, <<"/","a"," ","b">>, <<"H","T","T","P","/","1",".","1">>>>,
    <<<<"G","E","T">>, <<"/","t","?","a","=","1",":","2">>,
      <<"H","T","T","P","/","1",".","1">>>>,
    <<<<"H","T","T","P","/","1",".","1">>, <<"2","0","0">>, <<"O","K">>>>,
    <<<<"H","T","T","P","/","1",".","0">>, <<"4","0","4"," ","N","o","t">>,
      <<"F","o","u","n","d">>>>}

\* header names and values as parse_headers stores them: stripped, a name
\* without ':' in it, every name with at least one value
KNames == {<<"H","o","s","t">>, <<"h","o","s","t">>, <<"X","-","U+00E9">>}
KValues == {<<"a">>, <<"b",":","8","0">>, <<"c"," ","d">>}
KValueLists == {<<v>> : v \in KValues} \cup {<<v, w>> : v, w \in KValues}

KHeaderSets ==
    {h \in UNION {[1..n -> [key : KNames, vals : KValueLists]] :
                    n \in 0..MaxCodecHeaders} :
        \A i, j \in 1..Len(h) : i # j => h[i].key # h[j].key}

KIdle ==
    /\ kpc = "idle"
    /\ kinfo = <<>>
    /\ kheaders = <<>>
    /\ kdata = <<>>
    /\ kresult = [request_info |-> None, headers |-> <<>>]

KInit ==
    /\ kpc = "start"
    /\ kinfo \in KStartLines
    /\ kheaders \in KHeaderSets
    /\ kdata = <<>>
    /\ kresult = [request_info |-> None, headers |-> <<>>]

\* build_header_bytes(request_info, headers)
KBuildHeaderBytes ==
    /\ kpc = "start"
    /\ kdata' = BuildHeaderBytes(Some(kinfo), kheaders).data
    /\ kpc' = "built"
    /\ UNCHANGED <<kinfo, kheaders, kresult, otherThanK>>

\* parse_headers on the header block: the bytes before the final blank line,
\* as read_headers hands them over (lines 118-125)
KParseHeaders ==
    /\ kpc = "built"
    /\ kresult' = ParseHeaders(Slice(kdata, 0, Find(kdata, HEADER_END_BYTES)))
    /\ kpc' = "parsed"
    /\ UNCHANGED <<kinfo, kheaders, kdata, otherThanK>>

KNext == KBuildHeaderBytes \/ KParseHeaders

----------------------------------------------------------------------------
(* SpecInject: inject_event_code(html) on pages put together from pieces.  *)

MaxPieces == 3

IPieces == {
    <<"a">>,
    <<"<">>,
    <<"<","/","b","o","d">>,
    <<"y",">">>,
    <<"<","/","b","o","d","y",">">>,
    <<"<","/","B","O","D","Y",">">>,
    <<"<","/","B","o","d","y",">">>}

IPages == {Flatten(p) : p \in UNION {[1..n -> IPieces] : n \in 0..MaxPieces}}

IIdle ==
    /\ ipc = "idle"
    /\ ihtml = <<>>
    /\ iresult = <<>>

IInit ==
    /\ ipc = "start"
    /\ ihtml \in IPages
    /\ iresult = <<>>

\* inject_event_code(html)
IInjectEventCode ==
    /\ ipc = "start"
    /\ iresult' = InjectEventCode(ihtml)
    /\ ipc' = "done"
    /\ UNCHANGED <<ihtml, otherThanI>>

INext == IInjectEventCode

----------------------------------------------------------------------------
(* SpecRegistry: any sequence of set_callback and remove_callback calls on *)
(* one ThreadSafeChangeCallbacks, each run to its end under the lock.      *)

MaxKeys == 3

GKeys == 1..MaxKeys

\* the callables passed to set_callback: function objects
GCallbacks == {"f", "g"}

\* what dict.get gives for a key that is not there
NoCallback == "None"

\* dir_change_callbacks.get(key)
DictGet(d, key) ==
    IF \E i \in 1..Len(d) : d[i].key = key
    THEN d[CHOOSE i \in 1..Len(d) : d[i].key = key].cb
    ELSE NoCallback

\* A set_callback that stores the new callable over the old one.
SetCallbackReplaces(d, key, cb) ==
    IF DictGet(d, key) = NoCallback
    THEN Append(d, [key |-> key, cb |-> cb])
    ELSE [i \in 1..Len(d) |->
            IF d[i].key = key THEN [key |-> key, cb |-> cb] ELSE d[i]]

\* set_callback lines 50-51: dir_change_callbacks.setdefault(key, callback)
SetCallback(d, key, cb) ==
    IF \E i \in 1..Len(d) : d[i].key = key
    THEN d
    ELSE Append(d, [key |-> key, cb |-> cb])

\* remove_callback lines 60-62: if dir_change_callbacks.get(key): del ...;
\* a function object is true, None is not
RemoveCallback(d, key) ==
    IF DictGet(d, key) # NoCallback
    THEN SelectSeq(d, LAMBDA e : e.key # key)
    ELSE d

\* ThreadSafeChangeCallbacks.__init__: an empty dict
GInit ==
    /\ greg = <<>>
    /\ gprev = <<>>
    /\ gop = [op |-> "none", key |-> 0, cb |-> NoCallback]

GIdle == GInit

GSetCallback ==
    \E key \in GKeys, cb \in GCallbacks :
        /\ greg' = SetCallback(greg, key, cb)
        /\ gprev' = greg
        /\ gop' = [op |-> "set", key |-> key, cb |-> cb]
        /\ UNCHANGED otherThanG

GRemoveCallback ==
    \E key \in GKeys :
        /\ greg' = RemoveCallback(greg, key)
        /\ gprev' = greg
        /\ gop' = [op |-> "remove", key |-> key, cb |-> NoCallback]
        /\ UNCHANGED otherThanG

GNext == GSetCallback \/ GRemoveCallback

----------------------------------------------------------------------------
(* SpecPushBack: any sequence of restore_bytes and read_chunk calls on one *)
(* Stream whose peer sends some bytes and then closes.                     *)

MaxWire == 3
MaxCalls == 4

PBytes == {"a", "b"}

PWires == UNION {[1..n -> PBytes] : n \in 0..MaxWire}

\* the arguments given to restore_bytes
PRestored == {<<"a">>, <<"b", "a">>}

\* Stream.__init__: restored_bytes = b''
PInit ==
    /\ pwire \in PWires
    /\ prestored = <<>>
    /\ ppushes = <<>>
    /\ pret = [op |-> "none", data |-> <<>>, raised |-> FALSE, pushes |-> 0]
    /\ pcalls = 0

PIdle ==
    /\ pwire = <<>>
    /\ prestored = <<>>
    /\ ppushes = <<>>
    /\ pret = [op |-> "idle", data |-> <<>>, raised |-> FALSE, pushes |-> 0]
    /\ pcalls = 0

\* Stream.restore_bytes(data)
PRestoreBytes ==
    /\ pret.op # "idle"
    /\ pcalls < MaxCalls
    /\ \E data \in PRestored :
        /\ prestored' = RestoreBytes(prestored, data)
        /\ ppushes' = Append(ppushes, data)
        /\ pret' = [op |-> "restore", data |-> data, raised |-> FALSE,
                    pushes |-> 0]
    /\ pcalls' = pcalls + 1
    /\ UNCHANGED <<pwire, otherThanP>>

\* Stream.read_chunk()
PReadChunk ==
    /\ pret.op # "idle"
    /\ pcalls < MaxCalls
    /\ \E recvd \in RecvResults(pwire) :
        LET r == ReadChunk(prestored, recvd)
        IN  /\ pwire' = Slice(pwire, r.consumed, Len(pwire))
            /\ prestored' = r.restored
            /\ ppushes' = IF r.restored = <<>> THEN <<>> ELSE ppushes
            /\ pret' = [op |-> "read", data |-> r.data, raised |-> r.raised,
                        pushes |-> IF r.consumed = 0 /\ ~r.raised
                                   THEN Len(ppushes) ELSE 0]
    /\ pcalls' = pcalls + 1
    /\ UNCHANGED otherThanP

PNext == PRestoreBytes \/ PReadChunk

----------------------------------------------------------------------------
(* SpecStartLine: extract_http_starting_header_info(line) on short lines.  *)

MaxLine == 7

LChars == {"G", "/", " "}

LLines == UNION {[1..n -> LChars] : n \in 0..MaxLine}

LIdle ==
    /\ lpc = "idle"
    /\ lline = <<>>
    /\ lresult = None

LInit ==
    /\ lpc = "start"
    /\ lline \in LLines
    /\ lresult = None

\* extract_http_starting_header_info(line)
LExtract ==
    /\ lpc = "start"
    /\ lresult' = ExtractHttpStartingHeaderInfo(lline)
    /\ lpc' = "done"
    /\ UNCHANGED <<lline, otherThanL>>

LNext == LExtract

----------------------------------------------------------------------------
(* SpecTolerant: parse_headers(data) on a header block, and on the same    *)
(* block with one more line that holds no ':'.                             *)

MaxLines == 3

\* lines that hold ':'
TColonLines == {
    <<"a", ":", "1">>,
    <<"a", ":", "2">>,
    <<" ", "b", " ", ":", "1">>}

\* lines that hold none
TBareLines == {
    <<>>,
    <<"x">>,
    <<"G", " ", "/", " ", "H">>}

TBlocks == UNION {[1..n -> TColonLines \cup TBareLines] : n \in 0..MaxLines}

\* the bytes of a block: its lines joined by CRLF
BlockBytes(lines) == Encode(Join(lines, CRLF))

\* the block with one more line after its first `at` lines
WithLine(lines, at, line) ==
    SubSeq(lines, 1, at) \o <<line>> \o SubSeq(lines, at + 1, Len(lines))

TIdle ==
    /\ tpc = "idle"
    /\ tlines = <<>>
    /\ tat = 0
    /\ textra = <<>>
    /\ twithout = <<>>
    /\ twith = <<>>

TInit ==
    /\ tpc = "start"
    /\ tlines \in TBlocks
    /\ tat \in 0..Len(tlines)
    /\ textra \in TBareLines
    /\ twithout = <<>>
    /\ twith = <<>>

\* parse_headers on the block
TParseWithout ==
    /\ tpc = "start"
    /\ twithout' = ParseHeaders(BlockBytes(tlines)).headers
    /\ tpc' = "without"
    /\ UNCHANGED <<tlines, tat, textra, twith, otherThanT>>

\* parse_headers on the block with the extra line
TParseWith ==
    /\ tpc = "without"
    /\ twith' = ParseHeaders(BlockBytes(WithLine(tlines, tat, textra))).headers
    /\ tpc' = "done"
    /\ UNCHANGED <<tlines, tat, textra, twithout, otherThanT>>

TNext == TParseWithout \/ TParseWith

----------------------------------------------------------------------------
(* SpecCli: handle_cli and override_run_server_args (cli.py) for a         *)
(* `runserver` command line.  An argument is [kind, host, port]: an        *)
(* address host:port that the pattern of line 47 matches, with the port as *)
(* its digits, or an option.                                               *)

MaxArgs == 2

DJANGO_QUIK_ADDRESS == [host |-> "127.0.0.1", port |-> 8000]
DJANGO_PROXY_PORT == 8001

\* int(s) for a text of decimal digits
RECURSIVE ToInt(_)
ToInt(s) ==
    IF Len(s) = 0 THEN 0
    ELSE ToInt(SubSeq(s, 1, Len(s) - 1)) * 10
         + (CHOOSE d \in 0..9 : Str(d) = <<s[Len(s)]>>)

Address(host, port) == [kind |-> "address", host |-> host, port |-> port]
Option(name) == [kind |-> "option", host |-> name, port |-> <<>>]

AHosts == {"127.0.0.1", "0.0.0.0"}
APorts == {<<"8","0","0","0">>, <<"8","0","0","1">>, <<"9","0","0","0">>,
           <<"8","0">>}
AOptions == {Option("--noreload"), Option("--nothreading")}
AAddresses == {Address(h, p) : h \in AHosts, p \in APorts}

\* the arguments after `runserver`: options and at most one address
AArgs ==
    {a \in UNION {[1..n -> AOptions \cup AAddresses] : n \in 0..MaxArgs} :
        Cardinality({i \in 1..Len(a) : a[i].kind = "address"}) <= 1}

\* re.match(django_custom_address_pattern, arg)
MatchesAddress(arg) == arg.kind = "address"

\* the loop of override_run_server_args over sys.argv[2:], from argument i
RECURSIVE OverrideLoop(_, _, _, _, _)
OverrideLoop(argv, i, host, quik, django) ==
    IF i > Len(argv)
    THEN [argv |-> argv, host |-> host, quik |-> quik, django |-> django]
    ELSE IF MatchesAddress(argv[i])
    THEN LET swap == ToInt(argv[i].port) = django
             quik2 == IF swap THEN django ELSE ToInt(argv[i].port)
             django2 == IF swap THEN ToInt(argv[i].port) ELSE django
         IN  OverrideLoop(
                [argv EXCEPT ![i] = Address(argv[i].host, Str(django2))],
                i + 1, argv[i].host, quik2, django2)
    ELSE OverrideLoop(argv, i + 1, host, quik, django)

\* override_run_server_args: sys.argv is <<prog, "runserver", ...>>
OverrideRunServerArgs(argv) ==
    IF Len(argv) = 2
    THEN [argv |-> Append(argv, Address("127.0.0.1", Str(DJANGO_PROXY_PORT))),
          host |-> DJANGO_QUIK_ADDRESS.host,
          quik |-> DJANGO_QUIK_ADDRESS.port,
          django |-> DJANGO_PROXY_PORT]
    ELSE OverrideLoop(argv, 3, DJANGO_QUIK_ADDRESS.host,
                      DJANGO_QUIK_ADDRESS.port, DJANGO_PROXY_PORT)

NoConfiguration == [host |-> "", port |-> 0, proxy_port |-> 0]

AIdle ==
    /\ apc = "idle"
    /\ auser = <<>>
    /\ aargv = <<>>
    /\ arunning = FALSE
    /\ ahost = ""
    /\ aquik = 0
    /\ adjango = 0
    /\ aconfig = NoConfiguration

AInit ==
    /\ apc = "start"
    /\ auser \in {<<Option("django-quik"), Option("runserver")>> \o a :
                    a \in AArgs}
    /\ aargv = auser
    /\ arunning \in BOOLEAN
    /\ ahost = ""
    /\ aquik = 0
    /\ adjango = 0
    /\ aconfig = NoConfiguration

\* handle_cli lines 104-105
AOverrideRunServerArgs ==
    /\ apc = "start"
    /\ LET r == OverrideRunServerArgs(aargv)
       IN  /\ aargv' = r.argv
           /\ ahost' = r.host
           /\ aquik' = r.quik
           /\ adjango' = r.django
    /\ apc' = "overridden"
    /\ UNCHANGED <<auser, arunning, aconfig, otherThanA>>

\* handle_cli lines 107-124: the proxy thread is started, in the first
\* process only
AStartProxy ==
    /\ apc = "overridden"
    /\ ~arunning
    /\ aconfig' = [host |-> "0.0.0.0", port |-> 8000, proxy_port |-> adjango]
    /\ apc' = "proxy"
    /\ UNCHANGED <<auser, aargv, arunning, ahost, aquik, adjango, otherThanA>>

\* handle_cli lines 126-127: manage_py.main() runs runserver with sys.argv
AManageMain ==
    /\ \/ apc = "proxy"
       \/ apc = "overridden" /\ arunning
    /\ arunning' = TRUE
    /\ apc' = "main"
    /\ UNCHANGED <<auser, aargv, ahost, aquik, adjango, aconfig, otherThanA>>

ANext == AOverrideRunServerArgs \/ AStartProxy \/ AManageMain

----------------------------------------------------------------------------
(* Claims                                                                  *)

\* s is a prefix of t
IsPrefix(s, t) == Len(s) <= Len(t) /\ s = SubSeq(t, 1, Len(s))

\* the bytes of a message after its first header terminator
BodyOf(msg) ==
    IF HasTerminator(msg)
    THEN LET a == CHOOSE a \in 0..Len(msg) : FirstTerminatorAt(msg, a)
         IN  SubSeq(msg, a + Len(HEADER_END_BYTES) + 1, Len(msg))
    ELSE <<>>

\* the bytes of a message before its first header terminator
HeadOf(msg) ==
    IF HasTerminator(msg)
    THEN LET a == CHOOSE a \in 0..Len(msg) : FirstTerminatorAt(msg, a)
         IN  SubSeq(msg, 1, a)
    ELSE msg

\* the backend's answer declares text/html
AnswerIsHtml == IsTextHtml(ParseHeaders(HeadOf(rresp)).headers)

\* C1: when a pump of a relay stops because of a failure, both the client
\* stream and the backend stream have been closed by the time it ends.
C1_FailedPumpClosesBoth ==
    /\ Terminated(c2dpc) => (rcclosed /\ rbclosed)
    /\ Terminated(d2cpc) => (rcclosed /\ rbclosed)

\* C10: after modify_headers(h, n, v), header_value(h, n') returns v for
\* every n' equal to n up to letter case, whatever h held before.
C10_LookupAfterModify ==
    (hpc = "looked" /\ Lower(hlookup) = Lower(hname)) => hresult = Some(hvalue)

\* C2: read_headers returns exactly the bytes before the first terminator
\* and the following read_chunk results are exactly the bytes after it, for
\* every chunking; with a terminator in the stream read_headers returns.
C2_HeaderBodyRoundTrip ==
    /\ spc = "hdr_eof" => ~HasTerminator(sorig)
    /\ spc \in {"replay", "eof"} =>
        /\ FirstTerminatorAt(sorig, Len(sheader))
        /\ sheader = SubSeq(sorig, 1, Len(sheader))
        /\ sheader \o HEADER_END_BYTES \o sreplay \o srestored \o swire = sorig
    /\ spc = "eof" => sheader \o HEADER_END_BYTES \o sreplay = sorig

C2_Witness ==
    /\ spc = "eof"
    /\ ssplit
    /\ Len(sheader) > 0
    /\ Len(sreplay) > 0

\* C3: a text/html answer whose body holds </body> reaches the client whole:
\* headers with Connection: close, and the body with the reload script put
\* in front of </body>.  Stated for a client that stays connected, once the
\* backend -> client pump has ended.
C3_HtmlAnswerDelivered ==
    (/\ Terminated(d2cpc)
     /\ rcpeer = "open"
     /\ AnswerIsHtml
     /\ Contains(BodyOf(rresp), BODY_END))
    => /\ HasTerminator(rcout)
       /\ LET got == HeaderValue(ParseHeaders(HeadOf(rcout)).headers, CONNECTION)
          IN  got.ok /\ Lower(got.val) = Lower(CLOSE)
       /\ BodyOf(rcout) = Encode(InjectEventCode(Decode(BodyOf(rresp))))

\* the body bytes written to the client after the response headers
BodyWritten == SubSeq(rcout, Len(d2chdr) + 1, Len(rcout))

\* the body bytes read from the backend so far
BodyRead == BodyOf(SubSeq(rresp, 1, Len(rresp) - Len(rbwire)))

\* C4: when the answer is not text/html, the body bytes written to the
\* client are at every moment a prefix of the body bytes read from the
\* backend after its header block.
C4_BodyRelayedUnmodified ==
    (rbconn = "open" /\ rcout # <<>> /\ ~AnswerIsHtml)
    => /\ IsPrefix(d2chdr, rcout)
       /\ IsPrefix(BodyWritten, BodyRead)

C4_Witness ==
    /\ rresp = R_BIN
    /\ rmisread
    /\ rcout = d2chdr \o BodyOf(R_BIN)

\* the 'data: file changed' lines a client has been sent
Lines(c) == Len(SelectSeq(nout[c], LAMBDA m : m = FILE_CHANGED))

\* the trigger_notify runs so far
Broadcasts == Cardinality({t \in Timers : nbpc[t] # "idle"})

C6_OneBroadcastPerBurst ==
    /\ \A t \in Timers : ntstate[t] = "armed" => t = ntimer
    /\ Broadcasts <= nbursts
    /\ (\A t \in Timers : ntstate[t] # "armed") => Broadcasts = nbursts

C6_Witness ==
    /\ ntimer = MaxEvents
    /\ ntstate[1] = "cancelled"
    /\ ntstate[MaxEvents] = "fired"
    /\ Broadcasts < ntimer
    /\ Broadcasts = nbursts

\* C7: whenever no operation is inside the lock the registry is what the
\* completed set_callback and remove_callback calls give when applied one
\* after another, and a broadcast calls each callback of its copy exactly
\* once (never twice, and once each by the time it ends).
C7_RegistrySequential ==
    /\ ~nlock => nreg = nref
    /\ \A t \in Timers : \A c \in Conns :
        /\ ninvoked[t][c] <= 1
        /\ nbpc[t] \in {"done", "crashed"} =>
            ninvoked[t][c] = IF Registered(nsnap[t], c) THEN 1 ELSE 0

C7_Witness ==
    /\ nbpc[1] = "done" /\ Len(nsnap[1]) = 2
    /\ \E c \in Conns : Registered(nsnap[1], c) /\ ~Registered(nref, c)
    /\ nbpc[2] = "remove_del" /\ nlock
    /\ nhpc[1] = "done" /\ nhpc[2] = "done"

\* C8: serve_page returns only after both pumps have ended.
C8_ReturnsAfterBothPumps ==
    rhpc = "returned" => (c2dpc \in {"done", "crashed"} /\ d2cpc \in {"done", "crashed"})

C8_Witness == rhpc = "returned" /\ c2dpc = "done" /\ d2cpc = "done"

\* a pump has hit an error it does not recover from
PumpFailed ==
    \/ c2dpc \in {"close_client", "close_target", "done"}
    \/ d2cpc \in {"close_target", "close_client", "html_close_client",
                  "html_close_target", "done", "crashed"}

\* the relay is shut down: both pumps ended, both streams closed, handler back
ShutDown ==
    /\ Terminated(c2dpc) /\ Terminated(d2cpc)
    /\ rcclosed /\ rbclosed
    /\ rhpc = "returned"

\* a thread of the relay is able to take its next step: it is neither
\* ended nor blocked in recv or in join
HandlerCanStep ==
    \/ rhpc \in {"serve", "refresh", "write_request", "start_c2d",
                "start_d2c", "except"}
    \/ rhpc = "read_headers" /\ Reads(rcrest, rcclosed, rcwire, rcpeer) # {}
    \/ rhpc = "join_c2d" /\ c2dpc \in {"done", "crashed"}
    \/ rhpc = "join_d2c" /\ d2cpc \in {"done", "crashed"}

C2DCanStep ==
    \/ c2dpc \in {"write", "close_client", "close_target"}
    \/ c2dpc = "read" /\ Reads(rcrest, rcclosed, rcwire, rcpeer) # {}

D2CCanStep ==
    \/ d2cpc \in {"dispatch", "write_headers", "write", "close_target",
                  "close_client", "html_close_client", "html_close_target"}
    \/ d2cpc \in {"read_headers", "read"}
       /\ Reads(rbrest, rbclosed, rbwire, rbpeer) # {}

\* C9: once a pump has hit an unrecoverable error, the other pump ends too,
\* both streams end up closed and the connection handler returns: until
\* then some thread of the relay can always take its next step, so that no
\* pump is left blocked on a socket the failed pump should have closed.
C9_ShutdownPropagates ==
    PumpFailed => (ShutDown \/ HandlerCanStep \/ C2DCanStep \/ D2CCanStep)

\* the entries of a header set whose name differs from n ignoring case
OtherEntries(h, n) == SelectSeq(h, LAMBDA e : Lower(e.key) # Lower(n))

\* the entries of a header set whose name equals n ignoring case
SameEntries(h, n) == SelectSeq(h, LAMBDA e : Lower(e.key) = Lower(n))

\* C11: modify_headers(h, n, v) completes without error and leaves exactly
\* one entry whose name equals n ignoring case, stored under n as passed and
\* holding the one value v; every other entry is unchanged.
C11_ModifyCollapses ==
    hpc \in {"modified", "raised"} =>
        /\ hpc = "modified"
        /\ SameEntries(hset, hname) = <<[key |-> hname, vals |-> <<hvalue>>]>>
        /\ OtherEntries(hset, hname) = OtherEntries(horig, hname)

\* the names of a header set
NamesOf(h) == {h[i].key : i \in 1..Len(h)}

\* how often value v stands under name n in a header set
Occurrences(h, n, v) ==
    Cardinality({p \in UNION {{<<i, j>> : j \in 1..Len(h[i].vals)} :
                                i \in 1..Len(h)} :
                    h[p[1]].key = n /\ h[p[1]].vals[p[2]] = v})

\* the values of a header set
ValuesIn(h) ==
    UNION {{h[i].vals[j] : j \in 1..Len(h[i].vals)} : i \in 1..Len(h)}

\* C12: parse_headers on the header block build_header_bytes produced gives
\* the same start line and the same header names with the same values, up
\* to the order of the values.
C12_ParseAfterBuild ==
    kpc = "parsed" =>
        /\ kresult.request_info = Some(kinfo)
        /\ NamesOf(kresult.headers) = NamesOf(kheaders)
        /\ \A n \in NamesOf(kheaders) :
           \A v \in ValuesIn(kheaders) \cup ValuesIn(kresult.headers) :
            Occurrences(kresult.headers, n, v) = Occurrences(kheaders, n, v)

CONTENT_LENGTH ==
    <<"C","o","n","t","e","n","t","-","L","e","n","g","t","h">>

FirstBodyEnd(html) == Find(Lower(html), BODY_END)

\* C14: inject_event_code returns a text without a closing body tag (in any
\* letter case) unchanged, the empty text included; otherwise the text up
\* to the first closing body tag is kept and the reload script stands
\* immediately before that tag.
C14_InjectBeforeFirstBodyEnd ==
    ipc = "done" =>
        LET i == FirstBodyEnd(ihtml)
        IN  IF i = -1 THEN iresult = ihtml
            ELSE /\ Slice(iresult, 0, i) = Slice(ihtml, 0, i)
                 /\ Slice(iresult, i, i + Len(INJECTED_CODE)) = INJECTED_CODE
                 /\ Lower(Slice(iresult, i + Len(INJECTED_CODE),
                                i + Len(INJECTED_CODE) + Len(BODY_END)))
                    = BODY_END

C14_Witness ==
    /\ ipc = "done"
    /\ FirstBodyEnd(ihtml) > 0
    /\ Find(ihtml, BODY_END) # FirstBodyEnd(ihtml)
    /\ iresult # ihtml

\* the backend's answer carries an Upgrade header with 'websocket' in it,
\* in any letter case
AnswerIsWebSocket ==
    LET upgrade == HeaderValue(ParseHeaders(HeadOf(rresp)).headers, UPGRADE)
    IN  upgrade.ok /\ Contains(Lower(upgrade.val), WEBSOCKET)

\* C15: for an answer whose Upgrade header holds 'websocket', the header
\* block written to the client is the backend's: same start line (no
\* downgrade), and no header added, removed or altered.
C15_UpgradeHeadersUntouched ==
    (AnswerIsWebSocket /\ ~AnswerIsHtml /\ HasTerminator(rcout))
    => ParseHeaders(HeadOf(rcout)) = ParseHeaders(HeadOf(rresp))

\* the path of the request the handler has parsed
RequestPath == ParseHeaders(rhraw).request_info.val[2]

\* the handler has routed its request
Routed ==
    rhpc \in {"refresh", "subscribed", "write_request", "start_c2d",
              "start_d2c", "join_c2d", "join_d2c", "returned"}

\* C16: a parsed request goes to the notification endpoint if and only if
\* its path equals the reserved path; any other path is relayed over a
\* backend connection opened for it, and the notification endpoint opens no
\* backend connection.
C16_RouteByExactPath ==
    Routed =>
        /\ rhpc \in {"refresh", "subscribed"} <=> RequestPath = REFRESH_PATH
        /\ rhpc \in {"refresh", "subscribed"} => rbconn = "none"
        /\ rhpc \notin {"refresh", "subscribed"} => rbconn = "open"

\* the subscribers in the copy that broadcast t took
Snapshot(t) == {nsnap[t][i] : i \in 1..Len(nsnap[t])}

\* the thread of broadcast t takes a step
Moved(t) == nbpc'[t] # nbpc[t] \/ nidx'[t] # nidx[t]

\* no step of a broadcast closes a connection or ends a handler
NoConnectionTouched == npeer' = npeer /\ nhpc' = nhpc

\* what each step of broadcast t does around a failed write to subscriber
\* c: the failure leads to remove_callback, remove_callback removes c and
\* nobody else, the loop goes on, and a copy taken later holds registered
\* subscribers only
FailedWriteStep(t) ==
    LET c == nsnap[t][nidx[t]]
    IN  /\ (nbpc[t] = "invoke" /\ Moved(t) /\ npeer[c] = "closed")
           => nbpc'[t] = "remove" /\ nreg' = nreg /\ NoConnectionTouched
        /\ (nbpc[t] = "remove" /\ Moved(t))
           => nreg' = nreg /\ NoConnectionTouched
        /\ (nbpc[t] \in {"remove_del", "remove_skip"} /\ Moved(t))
           => /\ ~Registered(nreg', c)
              /\ \A d \in Conns \ {c} :
                    Registered(nreg', d) <=> Registered(nreg, d)
              /\ nbpc'[t] \in {"invoke", "done"}
              /\ NoConnectionTouched
        /\ (nbpc[t] = "get_all" /\ Moved(t))
           => \A d \in Snapshot(t)' : Registered(nreg, d)

\* a subscriber that was removed is not registered again
RemovedStaysRemoved ==
    \A c \in Conns :
        (nhpc[c] = "done" /\ ~Registered(nreg, c)) => ~Registered(nreg', c)

\* every broadcast calls exactly the callbacks of its copy, and one that
\* has finished has called them all
AllOfCopyInvoked ==
    \A t \in Timers :
        /\ nbpc[t] # "crashed"
        /\ \A c \in Conns : ninvoked[t][c] > 0 => c \in Snapshot(t)
        /\ nbpc[t] = "done" => \A c \in Snapshot(t) : ninvoked[t][c] = 1

\* C17: when the write to a subscriber fails during a broadcast, that
\* subscriber is removed from the registry; every other subscriber stays
\* registered and is still invoked, no connection is closed by it, and a
\* broadcast whose copy is taken after the removal does not invoke the
\* removed subscriber.
C17_FailedSubscriberRemoved ==
    /\ []AllOfCopyInvoked
    /\ [][RemovedStaysRemoved /\ \A t \in Timers : FailedWriteStep(t)]_vars

\* the first broadcast met a failed write on its first subscriber, removed
\* it, and wrote to the second; the second broadcast, whose copy was taken
\* after that, wrote to the second subscriber alone
C17_Witness ==
    /\ nbpc[1] = "done" /\ nbpc[2] = "done"
    /\ Len(nsnap[1]) = 2 /\ Len(nsnap[2]) = 1
    /\ nsnap[2][1] = nsnap[1][2]
    /\ ~Registered(nreg, nsnap[1][1])
    /\ Registered(nreg, nsnap[1][2])
    /\ Lines(nsnap[1][1]) = 0
    /\ Lines(nsnap[1][2]) = 2

\* the threads inside a `with self.lock` block of remove_callback
LockHolders == {t \in Timers : nbpc[t] \in {"remove_del", "remove_skip"}}

\* a thread waits for the lock
LockWanted ==
    \/ \E c \in Conns : nhpc[c] = "set_callback"
    \/ \E t \in Timers : nbpc[t] \in {"get_all", "remove"}

\* C18: the lock is held only by a thread inside remove_callback, which
\* leaves it with its next step; a broadcast that is calling callbacks or
\* is about to does not hold it, so every thread that wants the lock gets
\* it and no state is a deadlock on the lock.
C18_LockNotHeldInCallbacks ==
    /\ nlock <=> Cardinality(LockHolders) = 1
    /\ Cardinality(LockHolders) <= 1
    /\ (LockWanted /\ nlock) => \E t \in LockHolders : ENABLED NRemoveDel(t)

\* a callback is inside remove_callback for itself, holding the lock,
\* while a handler wants the lock for set_callback
C18_Witness ==
    \E t \in Timers :
        /\ nbpc[t] = "remove_del" /\ nlock
        /\ \E c \in Conns : nhpc[c] = "set_callback"

\* the keys of a registry
KeysOf(d) == {d[i].key : i \in 1..Len(d)}

\* C19: set_callback with an id that is present leaves the registry as it
\* is, the first callback kept; remove_callback with an id that is absent
\* leaves it as it is; a call that repeats the call before it changes
\* nothing.
C19_RegistryNoOps ==
    [][/\ (gop'.op = "set" /\ gop'.key \in KeysOf(greg)) => greg' = greg
       /\ (gop'.op = "remove" /\ gop'.key \notin KeysOf(greg)) => greg' = greg
       /\ (gop' = gop /\ gop.op # "none") => greg' = greg]_vars

\* set_callback was called for an id registered with another callback, and
\* the registry still holds the first one
C19_Witness ==
    /\ gop.op = "set"
    /\ gop.key \in KeysOf(gprev)
    /\ DictGet(gprev, gop.key) # gop.cb
    /\ DictGet(greg, gop.key) = DictGet(gprev, gop.key)

\* the step is a read_chunk call
IsReadChunk == pcalls' # pcalls /\ pret'.op = "read"

\* C20: in any sequence of restore_bytes and read_chunk calls, a read_chunk
\* that finds restored bytes returns all of them, in the order they were
\* handed back, empties the buffer and reads nothing from the socket; the
\* socket is read only with the buffer empty, and a read that gives no
\* byte raises StreamReadException.
C20_RestoredBytesFirst ==
    [][/\ (IsReadChunk /\ Len(prestored) > 0)
          => /\ ~pret'.raised
             /\ pret'.data = prestored
             /\ pret'.data = Flatten(ppushes)
             /\ prestored' = <<>>
             /\ pwire' = pwire
       /\ (IsReadChunk /\ Len(prestored) = 0)
          => /\ pret'.raised <=> pwire = <<>>
             /\ pwire = pret'.data \o pwire'
             /\ prestored' = <<>>
       /\ pwire' # pwire => Len(prestored) = 0]_vars

\* read_chunk returned what two restore_bytes calls had handed back while
\* the socket still had bytes to give
C20_Witness ==
    /\ pret.op = "read"
    /\ pret.pushes = 2
    /\ pret.data = <<"b", "a", "a">>
    /\ pwire # <<>>
    /\ prestored = <<>>

\* the number of spaces in a text
Spaces(t) == Cardinality({i \in 1..Len(t) : t[i] = " "})

\* C21: a start line of three or more space-delimited tokens (two or more
\* spaces) gives the triple of its first token, its interior tokens joined
\* by single spaces and its last token, so that the three fields joined by
\* single spaces are the line again; a line of fewer tokens gives None.
C21_StartLineTriple ==
    lpc = "done" =>
        IF Spaces(lline) >= 2
        THEN /\ lresult.ok
             /\ Len(lresult.val) = 3
             /\ Spaces(lresult.val[1]) = 0
             /\ Spaces(lresult.val[3]) = 0
             /\ lresult.val[1] \o SPACE \o lresult.val[2] \o SPACE
                    \o lresult.val[3] = lline
        ELSE lresult = None

\* a line whose target holds a space was split into its three fields
C21_Witness ==
    /\ lpc = "done"
    /\ lline = <<"G", " ", "/", " ", "/", " ", "G">>
    /\ lresult = Some(<<<<"G">>, <<"/", " ", "/">>, <<"G">>>>)

\* C22: a header block with one more line that holds no ':' (or with such
\* a line taken out) gives the same header set: the same names, the same
\* values, in the same order; a block of such lines alone gives no entry.
C22_BareLineIgnored ==
    tpc = "done" =>
        /\ twith = twithout
        /\ (\A i \in 1..Len(tlines) : tlines[i] \in TBareLines) => twith = <<>>

\* a line without ':' stood between two header lines of the same name
C22_Witness ==
    /\ tpc = "done"
    /\ tat = 1
    /\ textra = <<"x">>
    /\ Len(tlines) = 2
    /\ twith = <<[key |-> <<"a">>, vals |-> <<<<"1">>, <<"2">>>>]>>

\* the addresses among the arguments
AddressesIn(argv) ==
    {argv[i] : i \in {j \in 1..Len(argv) : argv[j].kind = "address"}}

\* C23: with a bind address on the command line, the proxy that is started
\* listens on the port the user gave, and the backend is started on
\* another port, never on the user's.
C23_ProxyOnUserPort ==
    (apc = "main" /\ aconfig # NoConfiguration) =>
        \A user \in AddressesIn(auser) :
            /\ aconfig.port = ToInt(user.port)
            /\ \A backend \in AddressesIn(aargv) :
                  /\ ToInt(backend.port) # aconfig.port
                  /\ ToInt(backend.port) # ToInt(user.port)

\* the handler parsed a request that serve_page relays to the backend
RelayedRequest ==
    /\ ParseHeaders(rhraw).request_info.ok
    /\ ~StartsWith(RequestPath, REFRESH_PATH)

\* C24: a relayed request that fails before the pumps are started (the
\* backend connection cannot be opened, or the request header block cannot
\* be written to it) ends with the client socket closed, the backend socket
\* closed if it was opened, and no pump started.
C24_EarlyFailureClosesAll ==
    (rhpc = "closed" /\ RelayedRequest) =>
        /\ rcclosed
        /\ rbconn = "open" => rbclosed
        /\ c2dpc = "idle" /\ d2cpc = "idle"

\* the response preamble reached the client of connection c
PreambleWritten(c) == Len(nout[c]) > 0 /\ nout[c][1] = PREAMBLE

\* C25: the preamble is written before the subscriber is registered: a
\* connection is registered, or about to be, only with its preamble
\* written; a connection whose preamble write failed is closed, is never
\* registered and is never called.
C25_PreambleBeforeRegistration ==
    \A c \in Conns :
        /\ (Registered(nreg, c) \/ nhpc[c] \in {"set_callback", "done"})
           => PreambleWritten(c)
        /\ (nhpc[c] # "idle" /\ ~PreambleWritten(c))
           => /\ nhpc[c] = "closed"
              /\ ~Registered(nreg, c)
              /\ \A t \in Timers : ninvoked[t][c] = 0

\* one connection lost its client before the preamble and was closed
\* unregistered; another one got its preamble, was registered, and a
\* broadcast reached it
C25_Witness ==
    \E c, d \in Conns :
        /\ nhpc[c] = "closed" /\ nout[c] = <<>> /\ ~Registered(nreg, c)
        /\ nhpc[d] = "done" /\ Registered(nreg, d)
        /\ nout[d] = <<PREAMBLE, FILE_CHANGED>>

\* the Timers that are started and neither cancelled nor fired
Armed == {t \in Timers : ntstate[t] = "armed"}

\* C26: at most one Timer is armed at any moment, and an event finds the
\* Timers before it out of the way: every Timer other than the latest one
\* has been cancelled and does not broadcast, also when the event arrives
\* while the Timer before it is firing (a Timer whose broadcast had ended
\* before the next event belongs to an earlier quiet period).
C26_OnlyLatestTimerLive ==
    /\ Cardinality(Armed) <= 1
    /\ \A t \in Timers : ntstate[t] = "cancelled" => nbpc[t] = "idle"
    /\ \A t \in Timers :
          (ntstate[t] # "none" /\ t # ntimer)
          => ntstate[t] = "cancelled" \/ nbpc[t] = "done"

\* C27: the header entries parse_headers returns come from the lines after
\* the first alone: every entry parsed from a block that build_header_bytes
\* wrote has the name of one of the headers written, also when the start
\* line holds ':'.
C27_StartLineYieldsNoHeader ==
    kpc = "parsed" =>
        \A i \in 1..Len(kresult.headers) :
            \E j \in 1..Len(kheaders) :
                kresult.headers[i].key = Strip(kheaders[j].key)

\* the first line of the header block the handler read
FirstLine == Split(Decode(rhraw), CRLF)[1]

\* the handler read a header block whose start line has fewer than three
\* space-delimited tokens, and went past parsing it
ShortStartLineHandled ==
    /\ rhraw # <<>>
    /\ Spaces(FirstLine) < 2
    /\ rhpc \notin {"read_headers", "serve"}

\* C28: a request whose start line has fewer than three space-delimited
\* tokens parses to no start line; handling it opens no backend connection,
\* registers no subscriber and starts no pump, and the client stream is
\* closed.
C28_ShortStartLineClosed ==
    /\ (rhraw # <<>> /\ Spaces(FirstLine) < 2)
       => ~ParseHeaders(rhraw).request_info.ok
    /\ ShortStartLineHandled =>
        /\ rhpc \in {"except", "closed"}
        /\ rhpc = "closed" => rcclosed
        /\ rbconn = "none"
        /\ rcout = <<>>
        /\ c2dpc = "idle" /\ d2cpc = "idle"

\* the request 'GET /' with a Host header was read and its stream closed,
\* with no backend connection
C28_Witness ==
    /\ rhpc = "closed"
    /\ rcclosed
    /\ FirstLine = <<"G", "E", "T", " ", "/">>
    /\ Len(ParseHeaders(rhraw).headers) = 1
    /\ rbconn = "none"

\* what broadcast t has called: callbacks of its copy, none of them twice,
\* and all of them once it has ended
CalledFromCopy(t) ==
    /\ \A c \in Conns : ninvoked[t][c] <= 1
    /\ \A c \in Conns : ninvoked[t][c] = 1 => c \in Snapshot(t)
    /\ nbpc[t] = "done" => \A c \in Snapshot(t) : ninvoked[t][c] = 1

\* the copy of broadcast t is the registry at the step that takes it, and
\* stays what it is afterwards whatever happens to the registry
CopyTakenOnce(t) ==
    /\ (nbpc[t] = "get_all" /\ Moved(t)) => nsnap'[t] = nreg
    /\ nbpc[t] \notin {"idle", "get_all"} => nsnap'[t] = nsnap[t]

\* C29: a broadcast calls exactly the callbacks that were in the registry
\* when its copy was taken, each once: one registered later is not called
\* by it, and one removed later, by another thread or by an earlier
\* callback of the same broadcast, is still called by it.
C29_BroadcastCallsItsCopy ==
    /\ [](\A t \in Timers : CalledFromCopy(t))
    /\ [][\A t \in Timers : CopyTakenOnce(t)]_vars

\* a broadcast has just called a subscriber of its copy that another
\* broadcast had removed meanwhile, and has not called the subscriber that
\* registered after its copy was taken
C29_Witness ==
    \E t \in Timers : \E c, d \in Conns :
        /\ nbpc[t] = "remove"
        /\ c \in Snapshot(t) /\ ninvoked[t][c] = 1 /\ ~Registered(nreg, c)
        /\ d \notin Snapshot(t) /\ Registered(nreg, d) /\ ninvoked[t][d] = 0

----------------------------------------------------------------------------
(* Specifications                                                          *)

InitHeaders == HInit /\ SIdle /\ RIdle /\ NIdle /\ KIdle /\ IIdle /\ GIdle /\ PIdle /\ LIdle /\ TIdle /\ AIdle
SpecHeaders == InitHeaders /\ [][HNext]_vars

InitStream == SInit /\ HIdle /\ RIdle /\ NIdle /\ KIdle /\ IIdle /\ GIdle /\ PIdle /\ LIdle /\ TIdle /\ AIdle
SpecStream == InitStream /\ [][SNext]_vars

InitRelay == RInit /\ HIdle /\ SIdle /\ NIdle /\ KIdle /\ IIdle /\ GIdle /\ PIdle /\ LIdle /\ TIdle /\ AIdle
SpecRelay == InitRelay /\ [][RNext]_vars

InitNotify == NInit /\ HIdle /\ SIdle /\ RIdle /\ KIdle /\ IIdle /\ GIdle /\ PIdle /\ LIdle /\ TIdle /\ AIdle
SpecNotify == InitNotify /\ [][NNext]_vars

InitCodec == KInit /\ HIdle /\ SIdle /\ RIdle /\ NIdle /\ IIdle /\ GIdle /\ PIdle /\ LIdle /\ TIdle /\ AIdle
SpecCodec == InitCodec /\ [][KNext]_vars

InitInject == IInit /\ HIdle /\ KIdle /\ NIdle /\ RIdle /\ SIdle /\ GIdle /\ PIdle /\ LIdle /\ TIdle /\ AIdle
SpecInject == InitInject /\ [][INext]_vars

InitRegistry == GInit /\ HIdle /\ IIdle /\ KIdle /\ NIdle /\ RIdle /\ SIdle /\ PIdle /\ LIdle /\ TIdle /\ AIdle
SpecRegistry == InitRegistry /\ [][GNext]_vars

InitPushBack == PInit /\ GIdle /\ HIdle /\ IIdle /\ KIdle /\ NIdle /\ RIdle /\ SIdle /\ LIdle /\ TIdle /\ AIdle
SpecPushBack == InitPushBack /\ [][PNext]_vars

InitStartLine == LInit /\ GIdle /\ HIdle /\ IIdle /\ KIdle /\ NIdle /\ PIdle /\ RIdle /\ SIdle /\ TIdle /\ AIdle
SpecStartLine == InitStartLine /\ [][LNext]_vars

InitTolerant == TInit /\ GIdle /\ HIdle /\ IIdle /\ KIdle /\ LIdle /\ NIdle /\ PIdle /\ RIdle /\ SIdle /\ AIdle
SpecTolerant == InitTolerant /\ [][TNext]_vars

InitCli == AInit /\ GIdle /\ HIdle /\ IIdle /\ KIdle /\ LIdle /\ NIdle /\ PIdle /\ RIdle /\ SIdle /\ TIdle
SpecCli == InitCli /\ [][ANext]_vars

====
